---- MODULE Spec2Model ----
(***************************************************************************)
(* Model of the meta node's recovery coordinator                           *)
(* (src/src/meta/src/barrier/recovery.rs): GlobalBarrierManager::recovery  *)
(* with clean_dirty_fragments, migrate_actors, get_migrate_map_plan,       *)
(* reset_compute_nodes, update_actors and build_actors.                    *)
(*                                                                         *)
(* Every .await of the code is a step of the model.  The collaborators     *)
(* whose code is outside the source files (fragment manager, catalog,      *)
(* hummock manager, source manager, cluster manager, Epoch) are modelled   *)
(* by the state they keep and the effect the specification gives them.     *)
(***************************************************************************)
EXTENDS Integers, Sequences, FiniteSets, TLC

\* ---------------------------------------------------------------- bounds
NumWorkers == 3        \* worker ids 1..NumWorkers
NumTables == 2         \* table (streaming job) ids 1..NumTables
MaxEpoch == 1          \* recovery's input epoch is drawn from 0..MaxEpoch
MaxTick == 2           \* Epoch::next advances by 1..MaxTick
MaxRetries == 2        \* failed attempts injected per recovery call
MaxClusterEvents == 1  \* workers joining or expiring while recovery runs
MaxScheduled == 1      \* barriers buffered when recovery starts
VnodeCount == 2        \* virtual nodes 0..VnodeCount-1
MaxSinkId == 1         \* the entries of a vmap are drawn from 0..MaxSinkId
MaxRows == 2           \* rows of an input chunk
MaxCalls == 2          \* calls of send on the shuffle sender
MaxCapacity == 2       \* output_channel_size is drawn from 1..MaxCapacity
MaxPUs == 3            \* parallel units given to Scheduler::new
NumPUWorkers == 2      \* workers that own the parallel units
MaxFragments == 2      \* calls of Scheduler::schedule
MaxActors == 2         \* actors of a fragment
MaxParses == 2         \* calls of DebeziumJsonParser::parse_inner
MaxErrors == 2         \* errors turned into a gRPC status

\* ------------------------------------------------------- program constants
RECOVERY_RETRY_BASE_INTERVAL == 20
RECOVERY_RETRY_MAX_INTERVAL == 5000

WorkerIds == 1..NumWorkers
TableIds == 1..NumTables
\* Every table fragment has one actor, which carries the id of its table.
ActorIds == TableIds

VARIABLES
    pc,                 \* position of the recovery task
    prev_epoch,         \* recovery's argument
    paused,             \* source_manager.paused is locked (guard alive)
    scheduled_barriers, \* number of buffered, not yet injected barriers
    stream_job_ids,     \* catalog manager: ids of the streaming jobs
    table_fragments,    \* fragment manager: table id -> "absent"|"creating"|"created"
    actor_location,     \* fragment manager: actor id -> worker id
    compaction_groups,  \* hummock manager: table ids with a registered group
    source_fragments,   \* source manager: table ids it keeps splits for
    running,            \* cluster manager: Running compute workers
    gone,               \* cluster manager: expired workers (tombstones)
    cluster_events,     \* joins and expiries so far
    to_drop,            \* clean_dirty_fragments: to_drop_table_fragments
    unregister_failed,  \* the warning of recovery.rs:98 was logged
    retry_strategy,     \* delays already taken from the retry strategy
    last_delay,         \* the delay slept before the current attempt (ms, before jitter)
    info,               \* the attempt's BarrierActorInfo
    new_epoch,          \* the attempt's new_epoch
    expired_workers,    \* migrate_actors: expired_workers
    cur,                \* get_migrate_map_plan: cur
    migrate_map,        \* get_migrate_map_plan: migrate_map (actor -> new worker)
    plan_node_map,      \* get_migrate_map_plan: node_map (new workers)
    pending,            \* workers whose RPC of the current step is outstanding
    stage,              \* update_actors: the request the current worker gets next
    stopped,            \* workers that answered force_stop_actors in this attempt
    force_stop_requests, \* worker -> request id of the force_stop_actors sent to it last
    broadcasted,        \* worker -> actor/host table it received in this attempt
    updated,            \* worker -> actors of its update_actors request
    built,              \* worker -> actors of its build_actors request
    node_actors,        \* update_actors: node_actors
    command_ctx,        \* the CommandContext built for the barrier
    barrier,            \* the barrier given to inject_barrier
    barrier_complete,   \* the barrier-complete channel of the attempt
    last_injected,      \* epochs of the barrier given to inject_barrier last, in any attempt
    steps,              \* steps of the current attempt, in the order they started
    counts,             \* how often lock, abort and clean ran in this call
    panic_msg,          \* message of the panic that ended recovery
    result              \* the epoch recovery returned

\* The consistent-hash shuffle channel
\* (src/src/batch/src/task/consistent_hash_shuffle_channel.rs).
VARIABLES
    vmap,                \* consistent_hash_info.vmap: vnode -> sink id
    output_channel_size, \* capacity of each of the queues
    senders,             \* queue of sink k (0-based) is senders[k + 1]
    receivers,           \* sinks (1-based) whose receiver has not been dropped
    received,            \* sink -> the results its receiver's recv returned
    calls,               \* the calls of send so far, the last one may be running
    sender_pc,           \* position of the sender's task
    sink_id              \* send_chunk / send_done: the loop's index

shuffleVars == <<vmap, output_channel_size, senders, receivers, received,
                 calls, sender_pc, sink_id>>

\* The fragment scheduler (src/src/meta/src/stream/scheduler.rs).
VARIABLES
    parallel_units,      \* the parallel units given to Scheduler::new
    all_parallel_units,  \* Scheduler.all_parallel_units
    actor_locations,     \* ScheduledLocations.actor_locations: actor -> unit
    actor_vnode_bitmaps, \* ScheduledLocations.actor_vnode_bitmaps
    fragments            \* the calls of schedule: input, fragment after, result

scheduleVars == <<parallel_units, all_parallel_units, actor_locations,
                  actor_vnode_bitmaps, fragments>>

\* The Debezium JSON parser
\* (src/src/connector/src/parser/debezium/simd_json_parser.rs).
VARIABLES
    rw_columns,          \* DebeziumJsonParser.rw_columns: the column names
    writer,              \* the writes done on the SourceStreamChunkRowWriter
    event,               \* the document given to the latest parse_inner
    parse_result,        \* what the latest parse_inner returned
    parses               \* calls of parse_inner so far

parserVars == <<rw_columns, writer, event, parse_result, parses>>

\* The error type of the server (src/rust/server/src/error.rs).
VARIABLES
    rpc_statuses         \* the errors turned into an RpcStatus so far

errorVars == <<rpc_statuses>>

\* what the steps of recovery leave alone
nonRecoveryVars == <<shuffleVars, scheduleVars, parserVars, errorVars>>

vars == <<pc, prev_epoch, paused, scheduled_barriers, stream_job_ids,
          table_fragments, actor_location, compaction_groups, source_fragments,
          running, gone, cluster_events, to_drop, unregister_failed, retry_strategy,
          last_delay, info, new_epoch, expired_workers, cur, migrate_map,
          plan_node_map, pending, stage, stopped, force_stop_requests, broadcasted,
          updated, built,
          node_actors, command_ctx, barrier, barrier_complete, last_injected,
          steps, counts,
          panic_msg, result, shuffleVars, scheduleVars, parserVars, errorVars>>

\* the variables of recovery
recoveryVars == <<pc, prev_epoch, paused, scheduled_barriers, stream_job_ids,
          table_fragments, actor_location, compaction_groups, source_fragments,
          running, gone, cluster_events, to_drop, unregister_failed, retry_strategy,
          last_delay, info, new_epoch, expired_workers, cur, migrate_map,
          plan_node_map, pending, stage, stopped, force_stop_requests, broadcasted,
          updated, built,
          node_actors, command_ctx, barrier, barrier_complete, last_injected,
          steps, counts,
          panic_msg, result>>

\* variables of the fragment manager, catalog, hummock and source manager
storeVars == <<stream_job_ids, table_fragments, actor_location,
               compaction_groups, source_fragments>>
\* locals of one attempt
attemptVars == <<info, new_epoch, expired_workers, cur, migrate_map,
                 plan_node_map, pending, stage, stopped, force_stop_requests,
                 broadcasted, updated,
                 built, node_actors, command_ctx, barrier, barrier_complete>>
\* locals of the migration plan
planVars == <<expired_workers, cur, migrate_map, plan_node_map>>
\* requests received by the workers in the current attempt
rpcVars == <<pending, stage, stopped, force_stop_requests, broadcasted, updated,
            built, node_actors>>
\* variables of the cluster manager and what the cluster was sent last
clusterVars == <<running, gone, cluster_events, last_injected>>

None == 0 - 1
NoWorker == 0
NoInfo == [actor_map |-> <<>>, node_map |-> {}]
NoCommandCtx == [kind |-> "none"]
NoBarrier == [kind |-> "none"]
EmptyMap == <<>>

Min(a, b) == IF a < b THEN a ELSE b

\* The table an actor belongs to.
ActorTable(a) == a

\* Actors of the table fragments the fragment manager holds.
StoredActors == {a \in ActorIds : table_fragments[ActorTable(a)] # "absent"}

\* fragment_manager.all_node_actors: worker -> actors placed on it.
AllNodeActors ==
    [w \in {actor_location[a] : a \in StoredActors} |->
        {a \in StoredActors : actor_location[a] = w}]

\* Epoch::next: a later epoch; the physical clock decides by how much.
EpochNext(e) == {e + d : d \in 1..MaxTick}

\* resolve_actor_info: the snapshot of live workers and placed actors.
ResolveActorInfo == [actor_map |-> AllNodeActors, node_map |-> running]

\* The state in which recovery is called.  The cleanup reads the stores and
\* the attempts read the cluster and the actors that survive the cleanup:
\* either the stores are arbitrary and the cluster is one healthy worker that
\* hosts every actor, or the stores are clean and the placement of the
\* actors and the set of Running workers are arbitrary.
RecoveryInit ==
    /\ pc = "start"
    /\ prev_epoch \in 0..MaxEpoch
    /\ paused = FALSE
    /\ scheduled_barriers \in 0..MaxScheduled
    /\ \/ /\ stream_job_ids \in SUBSET TableIds
          /\ table_fragments \in [TableIds -> {"absent", "creating", "created"}]
          /\ actor_location = [a \in ActorIds |-> 1]
          /\ running = {1}
       \/ /\ stream_job_ids = TableIds
          /\ table_fragments = [t \in TableIds |-> "created"]
          /\ actor_location \in [ActorIds -> WorkerIds]
          /\ running \in SUBSET WorkerIds
    /\ compaction_groups = {t \in TableIds : table_fragments[t] # "absent"}
    /\ source_fragments = {t \in TableIds : table_fragments[t] # "absent"}
    /\ gone = {}
    /\ cluster_events = 0
    /\ to_drop = {}
    /\ unregister_failed = FALSE
    /\ retry_strategy = 0
    /\ last_delay = 0
    /\ info = NoInfo
    /\ new_epoch = None
    /\ expired_workers = <<>>
    /\ cur = 0
    /\ migrate_map = EmptyMap
    /\ plan_node_map = {}
    /\ pending = {}
    /\ stage = NoWorker
    /\ stopped = {}
    /\ force_stop_requests = EmptyMap
    /\ broadcasted = EmptyMap
    /\ updated = EmptyMap
    /\ built = EmptyMap
    /\ node_actors = EmptyMap
    /\ command_ctx = NoCommandCtx
    /\ barrier = NoBarrier
    /\ barrier_complete = "none"
    /\ last_injected = NoBarrier
    /\ steps = <<>>
    /\ counts = [lock |-> 0, abort |-> 0, clean |-> 0]
    /\ panic_msg = "none"
    /\ result = None

\* No shuffle channel has been made.
ShuffleIdle ==
    /\ vmap = <<>>
    /\ output_channel_size = 1
    /\ senders = <<>>
    /\ receivers = {}
    /\ received = <<>>
    /\ calls = <<>>
    /\ sender_pc = "idle"
    /\ sink_id = 0

\* No scheduler has been made.
ScheduleIdle ==
    /\ parallel_units = <<>>
    /\ all_parallel_units = <<>>
    /\ actor_locations = <<>>
    /\ actor_vnode_bitmaps = <<>>
    /\ fragments = <<>>

\* No parser has been made.
ParserIdle ==
    /\ rw_columns = <<>>
    /\ writer = <<>>
    /\ event = [valid |-> FALSE,
                payload |-> [kind |-> "absent",
                             op |-> [kind |-> "absent", str |-> ""],
                             before |-> [kind |-> "absent", fields |-> <<>>],
                             after |-> [kind |-> "absent", fields |-> <<>>]]]
    /\ parse_result = [kind |-> "none", msg |-> ""]
    /\ parses = 0

\* No error has been turned into a status.
ErrorIdle == rpc_statuses = <<>>

Init == RecoveryInit /\ ShuffleIdle /\ ScheduleIdle /\ ParserIdle /\ ErrorIdle

\* ------------------------------------------------------ recovery, steps 1-3

\* recovery.rs:115  let _source_pause_guard = self.source_manager.paused.lock().await
AcquirePauseLock ==
    /\ pc = "start"
    /\ paused = FALSE
    /\ paused' = TRUE
    /\ counts' = [counts EXCEPT !.lock = @ + 1]
    /\ pc' = "abort"
    /\ UNCHANGED <<prev_epoch, scheduled_barriers, storeVars, clusterVars, to_drop, unregister_failed, retry_strategy,
                   last_delay, attemptVars, steps, panic_msg, result>>
    /\ UNCHANGED nonRecoveryVars

\* recovery.rs:118  self.scheduled_barriers.abort().await
AbortScheduled ==
    /\ pc = "abort"
    /\ scheduled_barriers' = 0
    /\ counts' = [counts EXCEPT !.abort = @ + 1]
    /\ pc' = "clean"
    /\ UNCHANGED <<prev_epoch, paused, storeVars, clusterVars,
                   to_drop, unregister_failed, retry_strategy, last_delay,
                   attemptVars, steps, panic_msg, result>>
    /\ UNCHANGED nonRecoveryVars

\* DirtyFragments, were the two conditions of the filter joined by &&.
DirtyFragments_BothConditions ==
    {t \in TableIds :
        /\ table_fragments[t] # "absent"
        /\ (t \notin stream_job_ids /\ table_fragments[t] # "created")}

\* The filter of clean_dirty_fragments: the stored table fragments whose job
\* the catalog no longer lists or which are not Created.
DirtyFragments ==
    {t \in TableIds :
        /\ table_fragments[t] # "absent"
        /\ (t \notin stream_job_ids \/ table_fragments[t] # "created")}

\* clean_dirty_fragments, recovery.rs:69-82: list the job ids and the table
\* fragments and select the ones to drop.
CleanList ==
    /\ pc = "clean"
    /\ to_drop' = DirtyFragments
    /\ counts' = [counts EXCEPT !.clean = @ + 1]
    /\ pc' = "clean_drop"
    /\ UNCHANGED <<prev_epoch, paused, scheduled_barriers, storeVars, clusterVars, unregister_failed, retry_strategy,
                   last_delay, attemptVars, steps, panic_msg, result>>
    /\ UNCHANGED nonRecoveryVars

\* A `?` of clean_dirty_fragments returns Err (list_stream_job_ids,
\* list_table_fragments or drop_table_fragments_vec failed) and
\* recovery.rs:123 .expect("clean dirty fragments") panics.
CleanFails ==
    /\ pc \in {"clean", "clean_drop"}
    /\ counts' = [counts EXCEPT !.clean = IF pc = "clean" THEN @ + 1 ELSE @]
    /\ panic_msg' = "clean dirty fragments"
    /\ pc' = "panicked"
    /\ UNCHANGED <<prev_epoch, paused, scheduled_barriers, storeVars, clusterVars, to_drop, unregister_failed, retry_strategy,
                   last_delay, attemptVars, steps, result>>
    /\ UNCHANGED nonRecoveryVars

\* recovery.rs:85-87  fragment_manager.drop_table_fragments_vec(&to_drop_streaming_ids)
DropTableFragments ==
    /\ pc = "clean_drop"
    /\ table_fragments' =
          [t \in TableIds |-> IF t \in to_drop THEN "absent" ELSE table_fragments[t]]
    /\ pc' = "clean_unregister"
    /\ UNCHANGED <<prev_epoch, paused, scheduled_barriers, stream_job_ids,
                   actor_location, compaction_groups, source_fragments, clusterVars, to_drop, unregister_failed, retry_strategy,
                   last_delay, attemptVars, steps, counts, panic_msg, result>>
    /\ UNCHANGED nonRecoveryVars

\* recovery.rs:90-102  hummock_manager.unregister_table_ids(..) succeeded.
UnregisterOk ==
    /\ pc = "clean_unregister"
    /\ compaction_groups' = compaction_groups \ to_drop
    /\ pc' = "clean_source"
    /\ UNCHANGED <<prev_epoch, paused, scheduled_barriers, stream_job_ids,
                   table_fragments, actor_location, source_fragments, clusterVars, to_drop, unregister_failed, retry_strategy,
                   last_delay, attemptVars, steps, counts, panic_msg, result>>
    /\ UNCHANGED nonRecoveryVars

\* UnregisterErr, were the error of unregister_table_ids returned with `?`.
UnregisterErr_Propagated ==
    /\ pc = "clean_unregister"
    /\ unregister_failed' = TRUE
    /\ panic_msg' = "clean dirty fragments"
    /\ pc' = "panicked"
    /\ UNCHANGED <<prev_epoch, paused, scheduled_barriers, storeVars,
                   clusterVars, to_drop, retry_strategy, last_delay,
                   attemptVars, steps, counts, result>>
    /\ UNCHANGED nonRecoveryVars

\* recovery.rs:90-102  unregister_table_ids failed: `let _ = ... inspect_err`
\* logs the warning and drops the error.
UnregisterErr ==
    /\ pc = "clean_unregister"
    /\ unregister_failed' = TRUE
    /\ pc' = "clean_source"
    /\ UNCHANGED <<prev_epoch, paused, scheduled_barriers, storeVars, clusterVars, to_drop, retry_strategy, last_delay,
                   attemptVars, steps, counts, panic_msg, result>>
    /\ UNCHANGED nonRecoveryVars

\* recovery.rs:105-109  source_manager.drop_source_change(&to_drop_table_fragments);
\* clean_dirty_fragments returns Ok(()) and recovery goes on to its attempts.
DropSourceChange ==
    /\ pc = "clean_source"
    /\ source_fragments' = source_fragments \ to_drop
    /\ to_drop' = {}
    /\ pc' = "resolve"
    /\ UNCHANGED <<prev_epoch, paused, scheduled_barriers, stream_job_ids,
                   table_fragments, actor_location, compaction_groups, clusterVars, unregister_failed, retry_strategy,
                   last_delay, attemptVars, steps, counts, panic_msg, result>>
    /\ UNCHANGED nonRecoveryVars

\* ------------------------------------------------------------ the retry loop

\* ExponentialBackoff: `current` after n items, base * base^n, kept just
\* above the maximal delay once it has passed it.
RECURSIVE RetryCurrent(_)
RetryCurrent(n) ==
    IF n = 0
    THEN RECOVERY_RETRY_BASE_INTERVAL
    ELSE Min(RetryCurrent(n - 1) * RECOVERY_RETRY_BASE_INTERVAL,
             RECOVERY_RETRY_MAX_INTERVAL + 1)

\* RetryDelay, were the strategy cut after its first item (.take(1)).
RetryDelay_TakeOne(n) ==
    IF n = 0 THEN RECOVERY_RETRY_BASE_INTERVAL ELSE None

\* get_retry_strategy: the n-th item of ExponentialBackoff::from_millis(20)
\* .max_delay(5 s), in ms and before jitter: 20, 400, 5000, 5000, ..
\* The iterator never ends (never yields None).
RetryDelay(n) == Min(RetryCurrent(n), RECOVERY_RETRY_MAX_INTERVAL)

\* Whether the model may inject one more failing step.
MayFail == retry_strategy < MaxRetries

\* A `?` or `return Err(err)` of the attempt closure: the attempt ends at
\* the failing step and Retry::spawn takes over.
AttemptErr(step) ==
    /\ pc' = "backoff"
    /\ steps' = IF step = "" THEN steps ELSE Append(steps, step)
    /\ UNCHANGED <<prev_epoch, paused, scheduled_barriers, storeVars,
                   clusterVars, to_drop, unregister_failed, retry_strategy,
                   last_delay, attemptVars, counts, panic_msg, result>>
    /\ UNCHANGED nonRecoveryVars

\* RetryAttempt, were the whole body of recovery after the lock retried.
RetryAttempt_FromAbort ==
    /\ pc = "backoff"
    /\ last_delay' = RetryDelay(retry_strategy)
    /\ retry_strategy' = retry_strategy + 1
    /\ steps' = <<>>
    /\ pc' = "abort"
    /\ UNCHANGED <<prev_epoch, paused, scheduled_barriers, storeVars,
                   clusterVars, to_drop, unregister_failed, counts, result,
                   attemptVars, panic_msg>>
    /\ UNCHANGED nonRecoveryVars

\* RetryAttempt, were the pause guard taken inside the retried closure: it
\* would be dropped when the attempt ends.
RetryAttempt_DropsGuard ==
    /\ pc = "backoff"
    /\ last_delay' = RetryDelay(retry_strategy)
    /\ retry_strategy' = retry_strategy + 1
    /\ paused' = FALSE
    /\ steps' = <<>>
    /\ pc' = "resolve"
    /\ UNCHANGED <<prev_epoch, scheduled_barriers, storeVars, clusterVars,
                   to_drop, unregister_failed, counts, result, attemptVars,
                   panic_msg>>
    /\ UNCHANGED nonRecoveryVars

\* tokio_retry::Retry::spawn, recovery.rs:125 and 190-191: after an Err the
\* next delay is taken from the strategy and slept, and the closure runs
\* again from its start; were the strategy at its end, spawn would return the
\* Err and .expect("Retry until recovery success.") would panic.
RetryAttempt ==
    /\ pc = "backoff"
    /\ IF RetryDelay(retry_strategy) # None
       THEN /\ last_delay' = RetryDelay(retry_strategy)
            /\ retry_strategy' = retry_strategy + 1
            /\ info' = NoInfo
            /\ new_epoch' = None
            /\ expired_workers' = <<>>
            /\ cur' = 0
            /\ migrate_map' = EmptyMap
            /\ plan_node_map' = {}
            /\ pending' = {}
            /\ stage' = NoWorker
            /\ stopped' = {}
            /\ force_stop_requests' = force_stop_requests
            /\ broadcasted' = EmptyMap
            /\ updated' = EmptyMap
            /\ built' = EmptyMap
            /\ node_actors' = EmptyMap
            /\ command_ctx' = NoCommandCtx
            /\ barrier' = NoBarrier
            /\ barrier_complete' = "none"
            /\ steps' = <<>>
            /\ pc' = "resolve"
            /\ UNCHANGED panic_msg
       ELSE /\ panic_msg' = "Retry until recovery success."
            /\ pc' = "panicked"
            /\ UNCHANGED <<retry_strategy, last_delay, attemptVars, steps>>
    /\ UNCHANGED <<prev_epoch, paused, scheduled_barriers, storeVars,
                   clusterVars, to_drop, unregister_failed, counts, result>>
    /\ UNCHANGED nonRecoveryVars

\* ------------------------------------------------------ one attempt, steps 4-5

\* what an attempt's step leaves alone, besides the stores and the cluster
callVars == <<prev_epoch, paused, scheduled_barriers, to_drop,
              unregister_failed, retry_strategy, last_delay, counts,
              panic_msg, result>>

\* All orders in which the elements of S can be iterated.
Orders(S) ==
    {s \in [1..Cardinality(S) -> S] : \A i, j \in DOMAIN s : i # j => s[i] # s[j]}

\* ResolveInfo, were new_epoch carried over from the attempt before: the
\* retry would start from the epoch of the barrier injected last.
ResolveInfo_FromLastAttempt ==
    /\ pc = "resolve"
    /\ info' = ResolveActorInfo
    /\ new_epoch' \in EpochNext(IF last_injected = NoBarrier THEN prev_epoch
                                 ELSE last_injected.curr_epoch)
    /\ steps' = Append(steps, "resolve")
    /\ pc' = "migrate"
    /\ UNCHANGED <<callVars, storeVars, clusterVars, planVars, rpcVars,
                   command_ctx, barrier, barrier_complete>>
    /\ UNCHANGED nonRecoveryVars

\* recovery.rs:126-127  resolve the actor info, new_epoch = prev_epoch.next()
ResolveInfo ==
    /\ pc = "resolve"
    /\ info' = ResolveActorInfo
    /\ new_epoch' \in EpochNext(prev_epoch)
    /\ steps' = Append(steps, "resolve")
    /\ pc' = "migrate"
    /\ UNCHANGED <<callVars, storeVars, clusterVars, planVars, rpcVars,
                   command_ctx, barrier, barrier_complete>>
    /\ UNCHANGED nonRecoveryVars

\* migrate_actors, recovery.rs:252-257: the workers that own actors and are
\* not in the snapshot's node_map.
ExpiredWorkers(i) ==
    {w \in DOMAIN i.actor_map : i.actor_map[w] # {} /\ w \notin i.node_map}

\* migrate_actors, recovery.rs:258-261: no expired worker, Ok(false).
MigrateSkip ==
    /\ pc = "migrate"
    /\ ExpiredWorkers(info) = {}
    /\ steps' = Append(steps, "migrate")
    /\ pc' = "reset"
    /\ UNCHANGED <<callVars, storeVars, clusterVars, info, new_epoch, planVars,
                   rpcVars, command_ctx, barrier, barrier_complete>>
    /\ UNCHANGED nonRecoveryVars

\* migrate_actors, recovery.rs:262-264 and get_migrate_map_plan,
\* recovery.rs:206-209: the plan starts empty.  The order of expired_workers
\* is the iteration order of the actor_map HashMap.
MigrateBegin ==
    /\ pc = "migrate"
    /\ ExpiredWorkers(info) # {}
    /\ expired_workers' \in Orders(ExpiredWorkers(info))
    /\ cur' = 0
    /\ migrate_map' = EmptyMap
    /\ plan_node_map' = {}
    /\ steps' = Append(steps, "migrate")
    /\ pc' = "plan"
    /\ UNCHANGED <<callVars, storeVars, clusterVars, info, new_epoch, rpcVars,
                   command_ctx, barrier, barrier_complete>>
    /\ UNCHANGED nonRecoveryVars

\* NewNodes, were the targets already in node_map not filtered out.
NewNodes_IgnoresPlan == running \ DOMAIN info.actor_map

\* get_migrate_map_plan, recovery.rs:215-220: the Running compute workers
\* that own no entry of the snapshot's actor_map and are not yet a target.
NewNodes == (running \ DOMAIN info.actor_map) \ plan_node_map

\* get_migrate_map_plan, recovery.rs:221-237: the for loop over new_nodes,
\* taken in the order `order`; it returns as soon as cur reaches the number
\* of expired workers.
RECURSIVE AssignNewNodes(_, _, _, _)
AssignNewNodes(order, c, mm, nm) ==
    IF order = <<>> \/ c = Len(expired_workers)
    THEN [cur |-> c, migrate_map |-> mm, node_map |-> nm]
    ELSE LET actors == info.actor_map[expired_workers[c + 1]]
             moved == [a \in actors |-> Head(order)]
         IN AssignNewNodes(Tail(order), c + 1, moved @@ mm,
                           nm \cup {Head(order)})

\* PollNewWorkers, were the plan returned after the first round that found a
\* new worker, whether or not every expired worker has a target.
PollNewWorkers_ReturnsPartial ==
    /\ pc = "plan"
    /\ \E order \in Orders(NewNodes) :
          LET r == AssignNewNodes(order, cur, migrate_map, plan_node_map)
          IN /\ cur' = r.cur
             /\ migrate_map' = r.migrate_map
             /\ plan_node_map' = r.node_map
             /\ pc' = IF r.cur > cur THEN "persist" ELSE "plan"
    /\ UNCHANGED <<callVars, storeVars, clusterVars, info, new_epoch,
                   expired_workers, rpcVars, command_ctx, barrier, barrier_complete, steps>>
    /\ UNCHANGED nonRecoveryVars

\* PollNewWorkers, were a round that leaves an expired worker without a
\* target an error of the migrate step.
PollNewWorkers_GivesUp ==
    /\ pc = "plan"
    /\ \E order \in Orders(NewNodes) :
          LET r == AssignNewNodes(order, cur, migrate_map, plan_node_map)
          IN /\ cur' = r.cur
             /\ migrate_map' = r.migrate_map
             /\ plan_node_map' = r.node_map
             /\ pc' = IF r.cur = Len(expired_workers) THEN "persist" ELSE "backoff"
    /\ UNCHANGED <<callVars, storeVars, clusterVars, info, new_epoch,
                   expired_workers, rpcVars, command_ctx, barrier, barrier_complete, steps>>
    /\ UNCHANGED nonRecoveryVars

\* get_migrate_map_plan, recovery.rs:210-245: one round of the while loop:
\* list the workers, assign the new ones, return the plan or sleep 100 ms.
PollNewWorkers ==
    /\ pc = "plan"
    /\ \E order \in Orders(NewNodes) :
          LET r == AssignNewNodes(order, cur, migrate_map, plan_node_map)
          IN /\ cur' = r.cur
             /\ migrate_map' = r.migrate_map
             /\ plan_node_map' = r.node_map
             /\ pc' = IF r.cur = Len(expired_workers) THEN "persist" ELSE "plan"
    /\ UNCHANGED <<callVars, storeVars, clusterVars, info, new_epoch,
                   expired_workers, rpcVars, command_ctx, barrier, barrier_complete, steps>>
    /\ UNCHANGED nonRecoveryVars

\* fragment_manager.migrate_actors(&migrate_map, &node_map), recovery.rs:266-268:
\* every actor of the plan is moved to its new worker in one transaction.
PersistMigration ==
    /\ pc = "persist"
    /\ actor_location' =
          [a \in ActorIds |->
              IF a \in DOMAIN migrate_map THEN migrate_map[a] ELSE actor_location[a]]
    /\ pc' = "resolve_again"
    /\ UNCHANGED <<callVars, stream_job_ids, table_fragments, compaction_groups,
                   source_fragments, clusterVars, attemptVars, steps>>
    /\ UNCHANGED nonRecoveryVars

\* recovery.rs:266-268 and 130-132: migrate_actors failed.
PersistMigrationErr ==
    /\ pc = "persist"
    /\ MayFail
    /\ AttemptErr("")

\* ResolveInfoAgain, were the snapshot taken before the migration kept.
ResolveInfoAgain_KeepsInfo ==
    /\ pc = "resolve_again"
    /\ info' = info
    /\ steps' = Append(steps, "resolve")
    /\ pc' = "reset"
    /\ UNCHANGED <<callVars, storeVars, clusterVars, new_epoch, planVars,
                   rpcVars, command_ctx, barrier, barrier_complete>>
    /\ UNCHANGED nonRecoveryVars

\* recovery.rs:133-135  if migrated { info = resolve_actor_info_for_recovery() }
ResolveInfoAgain ==
    /\ pc = "resolve_again"
    /\ info' = ResolveActorInfo
    /\ steps' = Append(steps, "resolve")
    /\ pc' = "reset"
    /\ UNCHANGED <<callVars, storeVars, clusterVars, new_epoch, planVars,
                   rpcVars, command_ctx, barrier, barrier_complete>>
    /\ UNCHANGED nonRecoveryVars

\* ------------------------------------------------------ one attempt, steps 6-8

\* ForceStopTargets, were only the workers that own actors reset.
ForceStopTargets_ActorOwners(i) == i.node_map \cap DOMAIN i.actor_map

\* reset_compute_nodes, recovery.rs:336: info.node_map.values(), the workers
\* that get a force_stop_actors request.
ForceStopTargets(i) == i.node_map

\* Uuid::new_v4(), recovery.rs:341: an id that no other call of new_v4
\* returns; the call is named by the attempt and the worker whose future
\* makes it.
NewRequestId(w) == [attempt |-> retry_strategy, worker |-> w]

\* ResetBegin, were the force_stop_actors futures made and never awaited.
ResetBegin_NotAwaited ==
    /\ pc = "reset"
    /\ pending' = ForceStopTargets(info)
    /\ force_stop_requests' = [w \in ForceStopTargets(info) |-> NewRequestId(w)]
    /\ steps' = Append(steps, "reset")
    /\ pc' = "update"
    /\ UNCHANGED <<callVars, storeVars, clusterVars, info, new_epoch, planVars,
                   stage, stopped, broadcasted, updated, built, node_actors,
                   command_ctx, barrier, barrier_complete>>
    /\ UNCHANGED nonRecoveryVars

\* reset_compute_nodes, recovery.rs:336-346: one force_stop_actors future per
\* worker of node_map, all polled together by try_join_all.
ResetBegin ==
    /\ pc = "reset"
    /\ pending' = ForceStopTargets(info)
    /\ force_stop_requests' = [w \in ForceStopTargets(info) |-> NewRequestId(w)]
    /\ steps' = Append(steps, "reset")
    /\ pc' = IF ForceStopTargets(info) = {} THEN "update" ELSE "resetting"
    /\ UNCHANGED <<callVars, storeVars, clusterVars, info, new_epoch, planVars,
                   stage, stopped, broadcasted, updated, built, node_actors,
                   command_ctx, barrier, barrier_complete>>
    /\ UNCHANGED nonRecoveryVars

\* recovery.rs:337-343: worker w answers its force_stop_actors request;
\* try_join_all (recovery.rs:346) returns Ok once every future has.
ForceStopOk(w) ==
    /\ pc = "resetting"
    /\ w \in pending
    /\ pending' = pending \ {w}
    /\ stopped' = stopped \cup {w}
    /\ pc' = IF pending = {w} THEN "update" ELSE "resetting"
    /\ UNCHANGED <<callVars, storeVars, clusterVars, info, new_epoch, planVars,
                   stage, force_stop_requests, broadcasted, updated, built, node_actors,
                   command_ctx, barrier, barrier_complete, steps>>
    /\ UNCHANGED nonRecoveryVars

\* recovery.rs:337-346: the client of w cannot be had or its request fails;
\* try_join_all returns the first error and drops the other futures.
ForceStopErr(w) ==
    /\ pc = "resetting"
    /\ w \in pending
    /\ MayFail
    /\ AttemptErr("")

\* ActorInfos, were every actor paired with the host of the first worker.
ActorInfos_FirstHost(i) ==
    UNION {{[actor_id |-> a,
             host |-> CHOOSE v \in DOMAIN i.actor_map : \A u \in DOMAIN i.actor_map : v <= u] :
                a \in i.actor_map[w]} : w \in DOMAIN i.actor_map}

\* update_actors, recovery.rs:276-288: the actor/host table; a worker of
\* actor_map that is missing from node_map has no host.
ActorInfos(i) ==
    UNION {{[actor_id |-> a, host |-> w] : a \in i.actor_map[w]} :
              w \in DOMAIN i.actor_map}

\* WorkerEvicted, were a worker without a node_map entry skipped silently.
WorkerEvicted_Never(i) == FALSE

\* update_actors, recovery.rs:277-281: some worker of actor_map has no entry
\* in node_map, the ok_or_else gives the error.
WorkerEvicted(i) == \E w \in DOMAIN i.actor_map : w \notin i.node_map

\* update_actors, recovery.rs:276-290: build actor_infos, read node_actors.
UpdateBegin ==
    /\ pc = "update"
    /\ ~WorkerEvicted(info)
    /\ node_actors' = AllNodeActors
    /\ pending' = DOMAIN info.actor_map
    /\ stage' = NoWorker
    /\ steps' = IF DOMAIN info.actor_map = {}
                THEN steps \o <<"update", "build">>
                ELSE Append(steps, "update")
    /\ pc' = IF DOMAIN info.actor_map = {} THEN "list" ELSE "updating"
    /\ UNCHANGED <<callVars, storeVars, clusterVars, info, new_epoch, planVars,
                   stopped, force_stop_requests, broadcasted, updated, built,
                   command_ctx, barrier, barrier_complete>>
    /\ UNCHANGED nonRecoveryVars

\* update_actors, recovery.rs:278-281: "worker evicted, wait for online."
UpdateEvicted ==
    /\ pc = "update"
    /\ WorkerEvicted(info)
    /\ AttemptErr("update")

\* update_actors, recovery.rs:291-299: the next worker of actor_map gets the
\* broadcast of the whole table.
BroadcastActorInfoTable(w) ==
    /\ pc = "updating"
    /\ stage = NoWorker
    /\ w \in pending
    /\ broadcasted' = (w :> ActorInfos(info)) @@ broadcasted
    /\ stage' = w
    /\ UNCHANGED <<callVars, storeVars, clusterVars, info, new_epoch, planVars,
                   pending, stopped, force_stop_requests, updated, built, node_actors,
                   command_ctx,
                   barrier, barrier_complete, steps, pc>>
    /\ UNCHANGED nonRecoveryVars

\* update_actors, recovery.rs:301-309: the same worker gets its own actors;
\* after the last worker update_actors returns and build_actors starts.
UpdateActors(w) ==
    /\ pc = "updating"
    /\ stage = w
    /\ updated' = (w :> (IF w \in DOMAIN node_actors THEN node_actors[w] ELSE {}))
                     @@ updated
    /\ stage' = NoWorker
    /\ pending' = IF pending = {w} THEN DOMAIN info.actor_map ELSE pending \ {w}
    /\ steps' = IF pending = {w} THEN Append(steps, "build") ELSE steps
    /\ pc' = IF pending = {w} THEN "building" ELSE "updating"
    /\ UNCHANGED <<callVars, storeVars, clusterVars, info, new_epoch, planVars,
                   stopped, force_stop_requests, broadcasted, built, node_actors,
                   command_ctx, barrier, barrier_complete>>
    /\ UNCHANGED nonRecoveryVars

\* update_actors, recovery.rs:293-309: the client of the worker cannot be
\* had, or its broadcast or its update_actors request fails.
UpdateErr ==
    /\ pc = "updating"
    /\ MayFail
    /\ AttemptErr("")

\* build_actors, recovery.rs:317-328: the next worker of actor_map gets its
\* build_actors request; after the last one build_actors returns.
BuildActors(w) ==
    /\ pc = "building"
    /\ w \in pending
    /\ built' = (w :> info.actor_map[w]) @@ built
    /\ pending' = pending \ {w}
    /\ pc' = IF pending = {w} THEN "list" ELSE "building"
    /\ UNCHANGED <<callVars, storeVars, clusterVars, info, new_epoch, planVars,
                   stage, stopped, force_stop_requests, broadcasted, updated,
                   node_actors, command_ctx, barrier, barrier_complete, steps>>
    /\ UNCHANGED nonRecoveryVars

\* build_actors, recovery.rs:319-328: the client cannot be had or the
\* build_actors request fails.
BuildErr ==
    /\ pc = "building"
    /\ MayFail
    /\ AttemptErr("")

\* ----------------------------------------------------- one attempt, steps 9-10

\* source_manager.list_assignments: actor -> splits, for the actors of the
\* fragments the source manager keeps.  Every actor reads the split of its id.
ListAssignments ==
    [a \in {x \in ActorIds : ActorTable(x) \in source_fragments} |-> <<a>>]

\* build_actor_connector_splits: actor -> ConnectorSplits.
BuildActorConnectorSplits(assignments) ==
    [a \in DOMAIN assignments |-> [splits |-> assignments[a]]]

\* RecoveryCommand, were the barrier the plain one of Command::barrier().
RecoveryCommand_NoMutation(assignments) ==
    [kind |-> "Plain",
     mutation |-> "None",
     actor_dispatchers |-> EmptyMap,
     actor_splits |-> EmptyMap]

\* recovery.rs:152-155  Command::Plain(Some(Mutation::Add(AddMutation {..})))
RecoveryCommand(assignments) ==
    [kind |-> "Plain",
     mutation |-> "Add",
     actor_dispatchers |-> EmptyMap,
     actor_splits |-> BuildActorConnectorSplits(assignments)]

\* recovery.rs:157-170  prev_epoch = new_epoch; new_epoch = prev_epoch.next();
\* CommandContext::new(.., info, prev_epoch, new_epoch, command, true, ..)
NewCommandContext(i, prev, curr, cmd) ==
    [kind |-> "barrier", info |-> i, prev_epoch |-> prev, curr_epoch |-> curr,
     command |-> cmd, checkpoint |-> TRUE]

\* BuildCommandContext, were the barrier to lead from recovery's input epoch
\* to the new_epoch of line 127.
BuildCommandContext_FromInputEpoch ==
    /\ pc = "list"
    /\ command_ctx' = NewCommandContext(info, prev_epoch, new_epoch,
                                        RecoveryCommand(ListAssignments))
    /\ steps' = Append(steps, "list")
    /\ pc' = "inject"
    /\ UNCHANGED <<callVars, storeVars, clusterVars, info, new_epoch, planVars,
                   rpcVars, barrier, barrier_complete>>
    /\ UNCHANGED nonRecoveryVars

\* recovery.rs:150-170: list the split assignments, build the command, advance
\* the epoch and build the command context.
BuildCommandContext ==
    /\ pc = "list"
    /\ \E next \in EpochNext(new_epoch) :
          /\ command_ctx' = NewCommandContext(info, new_epoch, next,
                                              RecoveryCommand(ListAssignments))
          /\ new_epoch' = next
    /\ steps' = Append(steps, "list")
    /\ pc' = "inject"
    /\ UNCHANGED <<callVars, storeVars, clusterVars, info, planVars, rpcVars,
                   barrier, barrier_complete>>
    /\ UNCHANGED nonRecoveryVars

\* CommandContext, recovery.rs:165-166: the prev_epoch and curr_epoch of a barrier.
BarrierEpochs(ctx) == [prev_epoch |-> ctx.prev_epoch, curr_epoch |-> ctx.curr_epoch]

\* recovery.rs:172-175  the barrier-complete channel is made and
\* self.inject_barrier(command_ctx.clone(), barrier_complete_tx) is called.
InjectBarrier ==
    /\ pc = "inject"
    /\ barrier' = command_ctx
    /\ barrier_complete' = "open"
    /\ last_injected' = BarrierEpochs(command_ctx)
    /\ steps' = Append(steps, "inject")
    /\ pc' = "collect"
    /\ UNCHANGED <<callVars, storeVars, running, gone, cluster_events, info,
                   new_epoch, planVars, rpcVars, command_ctx>>
    /\ UNCHANGED nonRecoveryVars

\* The barrier manager's collection: the injected barrier was collected and
\* (_, Ok(response)) is sent on the channel.
BarrierCollected ==
    /\ pc = "collect"
    /\ barrier_complete = "open"
    /\ barrier_complete' = "ok"
    /\ UNCHANGED <<pc, callVars, storeVars, clusterVars, info, new_epoch,
                   planVars, rpcVars, command_ctx, barrier, steps>>
    /\ UNCHANGED nonRecoveryVars

\* The barrier manager's collection: injection or collection failed and
\* (_, Err(err)) is sent on the channel.
BarrierFailed ==
    /\ pc = "collect"
    /\ barrier_complete = "open"
    /\ MayFail
    /\ barrier_complete' = "err"
    /\ UNCHANGED <<pc, callVars, storeVars, clusterVars, info, new_epoch,
                   planVars, rpcVars, command_ctx, barrier, steps>>
    /\ UNCHANGED nonRecoveryVars

\* The sender barrier_complete_tx is dropped before anything was sent.
SenderDropped ==
    /\ pc = "collect"
    /\ barrier_complete = "open"
    /\ barrier_complete' = "closed"
    /\ UNCHANGED <<pc, callVars, storeVars, clusterVars, info, new_epoch,
                   planVars, rpcVars, command_ctx, barrier, steps>>
    /\ UNCHANGED nonRecoveryVars

\* recovery.rs:176-177  barrier_complete_rx.recv() yields Some((_, Ok(response)))
CollectOk ==
    /\ pc = "collect"
    /\ barrier_complete = "ok"
    /\ steps' = Append(steps, "collect")
    /\ pc' = "post_collect"
    /\ UNCHANGED <<callVars, storeVars, clusterVars, attemptVars>>
    /\ UNCHANGED nonRecoveryVars

\* recovery.rs:184-187  barrier_complete_rx.recv() yields Some((_, Err(err)))
CollectErr ==
    /\ pc = "collect"
    /\ barrier_complete = "err"
    /\ AttemptErr("collect")

\* recovery.rs:176  barrier_complete_rx.recv() yields None on a closed
\* channel and .unwrap() panics.
CollectClosed ==
    /\ pc = "collect"
    /\ barrier_complete = "closed"
    /\ steps' = Append(steps, "collect")
    /\ panic_msg' = "called Option::unwrap() on a None value"
    /\ pc' = "panicked"
    /\ UNCHANGED <<prev_epoch, paused, scheduled_barriers, to_drop,
                   unregister_failed, retry_strategy, last_delay, counts,
                   result, storeVars, clusterVars, attemptVars>>
    /\ UNCHANGED nonRecoveryVars

\* PostCollectOk, were recovery to return the epoch it was given.
PostCollectOk_ReturnsPrevEpoch ==
    /\ pc = "post_collect"
    /\ steps' = Append(steps, "post_collect")
    /\ result' = prev_epoch
    /\ paused' = FALSE
    /\ pc' = "done"
    /\ UNCHANGED <<prev_epoch, scheduled_barriers, to_drop, unregister_failed,
                   retry_strategy, last_delay, counts, panic_msg, storeVars,
                   clusterVars, attemptVars>>
    /\ UNCHANGED nonRecoveryVars

\* recovery.rs:178-182 and 190-194: post_collect succeeded, the attempt
\* returns Ok((new_epoch, response)), Retry::spawn returns it and recovery
\* returns new_epoch; the pause guard is dropped on return.
PostCollectOk ==
    /\ pc = "post_collect"
    /\ steps' = Append(steps, "post_collect")
    /\ result' = new_epoch
    /\ paused' = FALSE
    /\ pc' = "done"
    /\ UNCHANGED <<prev_epoch, scheduled_barriers, to_drop, unregister_failed,
                   retry_strategy, last_delay, counts, panic_msg, storeVars,
                   clusterVars, attemptVars>>
    /\ UNCHANGED nonRecoveryVars

\* recovery.rs:178-181  post_collect failed: return Err(err)
PostCollectErr ==
    /\ pc = "post_collect"
    /\ MayFail
    /\ AttemptErr("post_collect")

\* ------------------------------------------------------------ the cluster

\* While the attempts run, membership changes.
Recovering == pc \notin {"start", "abort", "clean", "clean_drop",
                         "clean_unregister", "clean_source", "done", "panicked"}

\* cluster manager: the heartbeat of worker w timed out.
WorkerExpire(w) ==
    /\ Recovering
    /\ cluster_events < MaxClusterEvents
    /\ w \in running
    /\ running' = running \ {w}
    /\ gone' = gone \cup {w}
    /\ cluster_events' = cluster_events + 1
    /\ UNCHANGED <<pc, callVars, storeVars, last_injected, attemptVars, steps>>
    /\ UNCHANGED nonRecoveryVars

\* cluster manager: a new compute worker registered and was activated.  A new
\* worker gets an id no worker had before.
WorkerJoin(w) ==
    /\ Recovering
    /\ cluster_events < MaxClusterEvents
    /\ w \notin running \cup gone
    /\ \A a \in ActorIds : actor_location[a] # w
    /\ running' = running \cup {w}
    /\ cluster_events' = cluster_events + 1
    /\ UNCHANGED <<pc, callVars, storeVars, gone, last_injected, attemptVars, steps>>
    /\ UNCHANGED nonRecoveryVars

Next ==
    \/ AcquirePauseLock
    \/ AbortScheduled
    \/ CleanList
    \/ CleanFails
    \/ DropTableFragments
    \/ UnregisterOk
    \/ UnregisterErr
    \/ DropSourceChange
    \/ ResolveInfo
    \/ MigrateSkip
    \/ MigrateBegin
    \/ PollNewWorkers
    \/ PersistMigration
    \/ PersistMigrationErr
    \/ ResolveInfoAgain
    \/ ResetBegin
    \/ \E w \in WorkerIds : ForceStopOk(w)
    \/ \E w \in WorkerIds : ForceStopErr(w)
    \/ UpdateBegin
    \/ UpdateEvicted
    \/ \E w \in WorkerIds : BroadcastActorInfoTable(w)
    \/ \E w \in WorkerIds : UpdateActors(w)
    \/ UpdateErr
    \/ \E w \in WorkerIds : BuildActors(w)
    \/ BuildErr
    \/ BuildCommandContext
    \/ InjectBarrier
    \/ BarrierCollected
    \/ BarrierFailed
    \/ SenderDropped
    \/ CollectOk
    \/ CollectErr
    \/ CollectClosed
    \/ PostCollectOk
    \/ PostCollectErr
    \/ RetryAttempt
    \/ \E w \in WorkerIds : WorkerExpire(w)
    \/ \E w \in WorkerIds : WorkerJoin(w)

Spec == Init /\ [][Next]_vars

\* The steps of the recovery task and of the tasks and workers it waits for:
\* everything but the changes of the cluster's membership.
RecoveryStep ==
    \/ AcquirePauseLock \/ AbortScheduled \/ CleanList \/ CleanFails
    \/ DropTableFragments \/ UnregisterOk \/ UnregisterErr \/ DropSourceChange
    \/ ResolveInfo \/ MigrateSkip \/ MigrateBegin \/ PollNewWorkers
    \/ PersistMigration \/ PersistMigrationErr \/ ResolveInfoAgain
    \/ ResetBegin
    \/ \E w \in WorkerIds : ForceStopOk(w) \/ ForceStopErr(w)
    \/ UpdateBegin \/ UpdateEvicted
    \/ \E w \in WorkerIds : BroadcastActorInfoTable(w) \/ UpdateActors(w)
    \/ UpdateErr
    \/ \E w \in WorkerIds : BuildActors(w)
    \/ BuildErr \/ BuildCommandContext \/ InjectBarrier
    \/ BarrierCollected \/ BarrierFailed \/ SenderDropped
    \/ CollectOk \/ CollectErr \/ CollectClosed
    \/ PostCollectOk \/ PostCollectErr \/ RetryAttempt

\* The runtime keeps polling the recovery task and every request it awaits
\* is answered: a step of recovery that stays possible is taken.
FairSpec == Spec /\ WF_vars(RecoveryStep)

\* ------------------------------------------------------------------ claims

\* The positions at which the recovery call is running: it has taken the
\* pause lock and has neither returned nor panicked.
Running == pc \notin {"start", "done", "panicked"}

\* C1: whatever epoch recovery is given and however many attempts failed
\* before the successful one, the epoch recovery returns is strictly greater
\* than the epoch it was given.
C1_ReturnsLaterEpoch == pc = "done" => result > prev_epoch

\* C1 witness: recovery has returned after at least one failed attempt.
C1_Witness == pc = "done" /\ retry_strategy >= 1 /\ result > prev_epoch

\* C2: the pause lock is taken before any other step of recovery, it is held
\* in every state in which recovery is running (between attempts, in backoff
\* and while polling for new workers), and the only step that releases it is
\* the return that follows the successful post_collect.
C2_PauseLockHeld ==
    /\ [](Running => paused)
    /\ [](~paused /\ pc # "done" =>
             counts = [lock |-> 0, abort |-> 0, clean |-> 0] /\ steps = <<>>)
    /\ [][(paused /\ ~paused') => (pc = "post_collect" /\ pc' = "done")]_vars

\* C2 witness: the lock is held while a retry polls for new workers.
C2_Witness == paused /\ pc = "plan" /\ retry_strategy >= 1
\* The steps of an attempt in the order of the code, without and with a
\* migration (after which the actor info is resolved again).
StepOrder ==
    <<"resolve", "migrate", "reset", "update", "build", "list", "inject",
      "collect", "post_collect">>
StepOrderMigrated ==
    <<"resolve", "migrate", "resolve">> \o SubSeq(StepOrder, 3, Len(StepOrder))

IsPrefix(s, t) == Len(s) <= Len(t) /\ \A i \in 1..Len(s) : s[i] = t[i]

AllOnce == [lock |-> 1, abort |-> 1, clean |-> 1]

\* C3: recovery runs its steps in one order: pause lock, abort of the
\* scheduled barriers, cleanup, and then in every attempt resolve, migrate,
\* reset, update, build, list, inject, collect, post_collect.  No
\* update or build request is sent before every force_stop_actors of the
\* attempt was answered, no build request before every update_actors was, and
\* no barrier is injected before every build_actors was.
C3_StepOrder ==
    /\ counts.abort > 0 => counts.lock = 1
    /\ counts.clean > 0 => counts.abort = 1 /\ scheduled_barriers = 0
    /\ steps # <<>> => counts = AllOnce /\ to_drop = {}
    /\ IsPrefix(steps, StepOrder) \/ IsPrefix(steps, StepOrderMigrated)
    /\ (DOMAIN broadcasted # {} \/ DOMAIN updated # {}) =>
          stopped = info.node_map
    /\ DOMAIN built # {} =>
          /\ stopped = info.node_map
          /\ DOMAIN broadcasted = DOMAIN info.actor_map
          /\ DOMAIN updated = DOMAIN info.actor_map
    /\ barrier # NoBarrier => DOMAIN built = DOMAIN info.actor_map

\* C3 witness: after a migration, the barrier is injected once two workers
\* were reset and the actors were updated and built.
C3_Witness ==
    /\ barrier # NoBarrier
    /\ IsPrefix(<<"resolve", "migrate", "resolve">>, steps)
    /\ Cardinality(stopped) >= 2
    /\ DOMAIN built # {}
\* The positions at which a step of the attempt can return an error.
ErrPositions ==
    {"persist", "resetting", "update", "updating", "building", "collect",
     "post_collect"}

\* What the workers and the fragment manager saw of the current attempt.
attemptLog == <<stopped, broadcasted, updated, built, barrier, actor_location>>

\* C4: an error of migrate, reset, update, build, injection/collection or
\* post_collect ends the attempt at the failing step: nothing more of that
\* attempt runs, and the next attempt starts at resolve-actor-info.  The pause
\* lock, the abort of the scheduled barriers and the cleanup each run once per
\* recovery call: a retry does not repeat them.
C4_RetryFromResolve ==
    /\ [][(pc' = "backoff" /\ pc # "backoff") =>
             (pc \in ErrPositions /\ UNCHANGED attemptLog)]_vars
    /\ [][pc = "backoff" =>
             \/ UNCHANGED <<pc, steps, attemptLog>>
             \/ (pc' = "resolve" /\ steps' = <<>> /\ UNCHANGED <<counts, paused>>)]_vars
    /\ [](steps # <<>> => steps[1] = "resolve")
    /\ [](counts.lock <= 1 /\ counts.abort <= 1 /\ counts.clean <= 1)
    /\ [](retry_strategy >= 1 => counts = AllOnce)

\* C4 witness: a later attempt runs, after an attempt that failed when it had
\* reset the workers, and lock, abort and cleanup have run once.
C4_Witness ==
    /\ retry_strategy >= 1
    /\ pc = "building"
    /\ counts = AllOnce
\* C5: an Err of an attempt never ends recovery: from backoff the only way on
\* is the next attempt, the retry strategy has a delay for every number of
\* failed attempts, recovery never panics with "Retry until recovery
\* success.", and it returns only from an attempt of which every step up to
\* post_collect succeeded.  Under fairness recovery returns once the steps
\* succeed, unless it panicked or waits for new workers for ever.
C5_ErrIsTransient ==
    /\ [][pc = "backoff" => pc' \in {"backoff", "resolve"}]_vars
    /\ [](pc = "backoff" => ENABLED RetryAttempt)
    /\ [](\A n \in 0..(retry_strategy + 1) : RetryDelay(n) # None)
    /\ [](panic_msg # "Retry until recovery success.")
    /\ [](pc = "done" =>
             /\ steps \in {StepOrder, StepOrderMigrated}
             /\ barrier_complete = "ok")
    /\ (<>(pc = "done") \/ <>(pc = "panicked") \/ <>[](pc = "plan"))

\* C5 witness: recovery returned after as many failed attempts as the model
\* injects.
C5_Witness == pc = "done" /\ retry_strategy >= MaxRetries
\* C6: a barrier-complete channel whose sender was dropped before a result
\* was sent is an error of the attempt like any other: recovery stays in the
\* attempt or goes to backoff for the next attempt; it does not crash.
C6_ClosedChannelIsRetried ==
    barrier_complete = "closed" => (pc \in {"collect", "backoff"} /\ panic_msg = "none")

\* C7 as stated: the barrier leads from recovery's input epoch to its direct
\* successor prev_epoch.next().
C7_BarrierAtNextOfInput ==
    barrier # NoBarrier =>
        /\ barrier.prev_epoch = prev_epoch
        /\ barrier.curr_epoch \in EpochNext(prev_epoch)

\* C7: the barrier recovery injects leads from prev_epoch.next() to
\* prev_epoch.next().next(): its previous epoch is the successor of
\* recovery's input epoch and its current epoch the successor of that, two
\* epochs after the input.
C7_BarrierAtSecondNext ==
    barrier # NoBarrier =>
        /\ barrier.prev_epoch \in EpochNext(prev_epoch)
        /\ barrier.curr_epoch \in EpochNext(barrier.prev_epoch)
        /\ barrier.curr_epoch >= prev_epoch + 2
        /\ barrier.curr_epoch = new_epoch

\* C7 witness: a barrier was injected whose epochs are the two after the input.
C7_Witness ==
    /\ barrier # NoBarrier
    /\ barrier.prev_epoch = prev_epoch + 1
    /\ barrier.curr_epoch = prev_epoch + 2

\* The actor splits of the assignments the source manager holds.
ExpectedActorSplits ==
    [a \in {x \in ActorIds : ActorTable(x) \in source_fragments} |->
        [splits |-> <<a>>]]

\* C8: whenever an attempt builds and injects its barrier, the barrier is a
\* checkpoint whose command is Plain(Add) without actor dispatchers and with
\* the actor splits of the source manager's assignments, listed in that
\* attempt after build_actors succeeded for every worker.
C8_AddBarrierOnly ==
    /\ command_ctx # NoCommandCtx =>
          /\ command_ctx.checkpoint
          /\ command_ctx.command.kind = "Plain"
          /\ command_ctx.command.mutation = "Add"
          /\ command_ctx.command.actor_dispatchers = EmptyMap
          /\ command_ctx.command.actor_splits = ExpectedActorSplits
          /\ DOMAIN built = DOMAIN info.actor_map
          /\ \E i \in 2..Len(steps) : steps[i - 1] = "build" /\ steps[i] = "list"
    /\ barrier # NoBarrier => barrier = command_ctx

\* C8 witness: a retry injected a barrier with the splits of the actors that
\* survived a cleanup which dropped something.
C8_Witness ==
    /\ barrier # NoBarrier
    /\ DOMAIN barrier.command.actor_splits # {}
    /\ DOMAIN barrier.command.actor_splits # ActorIds
    /\ retry_strategy >= 1

\* The table fragments the fragment manager holds.
StoredTables == {t \in TableIds : table_fragments[t] # "absent"}

CleanPhase ==
    {"start", "abort", "clean", "clean_drop", "clean_unregister", "clean_source"}

\* C9: the cleanup drops exactly the stored table fragments whose table id
\* the catalog does not list or which are not Created; the listed and Created
\* ones stay; nothing else ever changes the table fragments; and the dropped
\* set is what the compaction groups are unregistered for and what the
\* source manager forgets, so that after a cleanup that did not fail every
\* stored table fragment is listed and Created.
C9_DropsExactlyDirty ==
    /\ [][(pc = "clean_drop" /\ pc' = "clean_unregister") =>
             /\ to_drop = {t \in StoredTables :
                             t \notin stream_job_ids \/ table_fragments[t] # "created"}
             /\ \A t \in TableIds :
                   table_fragments'[t] =
                      IF table_fragments[t] = "created" /\ t \in stream_job_ids
                      THEN "created" ELSE "absent"]_vars
    /\ [][(pc # "clean_drop") => UNCHANGED table_fragments]_vars
    /\ [][(pc = "clean_unregister" /\ pc' = "clean_source" /\ ~unregister_failed') =>
             compaction_groups' = compaction_groups \ to_drop]_vars
    /\ [][(pc = "clean_source" /\ pc' # pc) =>
             source_fragments' = source_fragments \ to_drop]_vars
    /\ [](pc \notin CleanPhase /\ panic_msg # "clean dirty fragments" =>
             /\ source_fragments = StoredTables
             /\ (~unregister_failed => compaction_groups = StoredTables)
             /\ \A t \in StoredTables :
                   table_fragments[t] = "created" /\ t \in stream_job_ids)

\* C9 witness: the cleanup has just dropped some table fragments and kept
\* others.
C9_Witness ==
    /\ pc = "clean_unregister"
    /\ to_drop # {}
    /\ StoredTables # {}
    /\ \E t \in to_drop : t \in stream_job_ids

\* C10: a failed unregistration of the compaction groups does not end
\* recovery: the cleanup does not panic, the source manager is still told
\* about the dropped fragments, and recovery goes on to its attempts.
C10_UnregisterBestEffort ==
    /\ [](unregister_failed =>
             /\ panic_msg # "clean dirty fragments"
             /\ pc \notin (CleanPhase \ {"clean_source"})
             /\ (pc # "clean_source" => source_fragments = StoredTables /\ to_drop = {}))
    /\ [][(pc = "clean_unregister") => pc' \in {"clean_unregister", "clean_source"}]_vars
    /\ [][(pc = "clean_source") => pc' \in {"clean_source", "resolve"}]_vars

\* C10 witness: recovery returned although the unregistration failed and left
\* the compaction group of a dropped table fragment behind.
C10_Witness ==
    /\ unregister_failed
    /\ pc = "done"
    /\ compaction_groups # StoredTables

\* ------------------------------------------------------ claims on migration

\* The workers that own at least one actor in snapshot i and are not among
\* its nodes.
OwnersNotListed(i) ==
    {w \in DOMAIN i.actor_map : (\E a \in ActorIds : a \in i.actor_map[w])
                                 /\ w \notin i.node_map}

\* The positions of get_migrate_map_plan and of the persisting call.
MigratePhase == {"plan", "persist", "resolve_again"}

\* The attempt has resolved the actor info a second time.
Migrated == Len(steps) >= 3 /\ steps[3] = "resolve"

Range(f) == {f[x] : x \in DOMAIN f}

\* C11: the expired workers of an attempt are exactly the workers with at
\* least one actor in the snapshot's actor_map that are absent from its
\* node_map.  If there is none, the attempt goes from migrate straight to
\* reset: it makes no plan, persists nothing, keeps its snapshot and sends
\* the later requests from it.  If there is one and the migration is
\* persisted, the actor info is resolved again before reset, the new snapshot
\* has every migrated actor on its new worker, and the later requests are
\* made from the new snapshot.
C11_MigrateOnlyExpired ==
    /\ [](pc \in MigratePhase =>
             /\ Range(expired_workers) = OwnersNotListed(info)
             /\ Len(expired_workers) = Cardinality(OwnersNotListed(info))
             /\ expired_workers # <<>>)
    /\ [][(pc = "migrate" /\ pc' # "migrate" /\ OwnersNotListed(info) = {}) =>
            /\ pc' = "reset"
            /\ UNCHANGED <<info, planVars, actor_location>>
            /\ migrate_map = EmptyMap]_vars
    /\ [][(pc = "migrate" /\ pc' # "migrate" /\ OwnersNotListed(info) # {}) =>
            pc' = "plan"]_vars
    /\ [][info' # info => pc \in {"resolve", "resolve_again", "backoff"}]_vars
    /\ [][(pc' = "reset" /\ pc # "reset") =>
            \/ pc = "migrate" /\ OwnersNotListed(info) = {}
            \/ /\ pc = "resolve_again"
               /\ info'.node_map = running
               /\ \A a \in DOMAIN migrate_map :
                     /\ migrate_map[a] \in DOMAIN info'.actor_map
                     /\ a \in info'.actor_map[migrate_map[a]]
                     /\ \A w \in Range(expired_workers) :
                           w \in DOMAIN info'.actor_map => a \notin info'.actor_map[w]]_vars
    /\ [](pc \notin ({"start", "resolve", "migrate", "backoff", "panicked"}
                       \cup CleanPhase \cup MigratePhase) =>
             /\ Migrated <=> migrate_map # EmptyMap
             /\ \A w \in DOMAIN built : built[w] = info.actor_map[w]
             /\ \A w \in DOMAIN broadcasted : broadcasted[w] = ActorInfos(info)
             /\ stopped \subseteq info.node_map)

\* C11 witness: after a persisted migration the actors were built on the
\* worker the new snapshot places them on.
C11_Witness ==
    /\ pc = "list"
    /\ Migrated
    /\ \E a \in DOMAIN migrate_map : a \in built[migrate_map[a]]

\* The worker that owns actor a in snapshot i.
OwnerOf(i, a) == CHOOSE w \in DOMAIN i.actor_map : a \in i.actor_map[w]

\* C12: while the plan is made and persisted, all actors of one expired
\* worker have the same target, two expired workers never share a target,
\* every target owns no entry of the snapshot's actor_map and was Running when
\* it was listed, and the plan's worker map is exactly the set of targets.
C12_PlanOneToOne ==
    /\ [](pc \in MigratePhase =>
             /\ \A a, b \in DOMAIN migrate_map :
                   (OwnerOf(info, a) = OwnerOf(info, b)) <=> (migrate_map[a] = migrate_map[b])
             /\ \A i \in 1..cur :
                   info.actor_map[expired_workers[i]] \subseteq DOMAIN migrate_map
             /\ DOMAIN migrate_map =
                   UNION {info.actor_map[expired_workers[i]] : i \in 1..cur}
             /\ Range(migrate_map) \cap DOMAIN info.actor_map = {}
             /\ Range(migrate_map) = plan_node_map
             /\ Cardinality(plan_node_map) = cur)
    /\ [][plan_node_map' \ plan_node_map \subseteq running]_vars

\* C12 witness: a complete plan that moves the two actors of one expired
\* worker to one new worker.
C12_Witness ==
    /\ pc = "persist"
    /\ Cardinality(DOMAIN migrate_map) = 2
    /\ Cardinality(plan_node_map) = 1

\* Every actor of every expired worker of snapshot i.
ExpiredActors(i) == UNION {i.actor_map[w] : w \in OwnersNotListed(i)}

\* C13: the placement of the actors changes only by the persisting call of
\* migrate_actors, which an attempt makes at most once, as its second step,
\* and with a plan that holds every actor of every expired worker of the
\* attempt's snapshot; while an expired worker has no target the attempt
\* stays in the plan and persists nothing.
C13_NoPartialMigration ==
    /\ [][actor_location' # actor_location =>
            /\ pc = "persist" /\ pc' = "resolve_again"
            /\ DOMAIN migrate_map = ExpiredActors(info)
            /\ \A a \in ActorIds :
                  actor_location'[a] =
                     IF a \in ExpiredActors(info) THEN migrate_map[a] ELSE actor_location[a]]_vars
    /\ [](pc = "persist" =>
             /\ steps = <<"resolve", "migrate">>
             /\ cur = Len(expired_workers)
             /\ DOMAIN migrate_map = ExpiredActors(info))
    /\ [](pc = "plan" => cur < Len(expired_workers))
    /\ [][(pc' = "persist" /\ pc # "persist") => pc = "plan"]_vars
    /\ [][(pc' = "plan" /\ pc # "plan") => (pc = "migrate" /\ Len(steps') = 2)]_vars

\* C13 witness: a migration was persisted in a retry, for two expired actors.
C13_Witness ==
    /\ pc = "resolve_again"
    /\ retry_strategy >= 1
    /\ Cardinality(DOMAIN migrate_map) = 2
    /\ \A a \in DOMAIN migrate_map : actor_location[a] = migrate_map[a]

\* ================================================================
\* The consistent-hash shuffle channel
\* (src/src/batch/src/task/consistent_hash_shuffle_channel.rs): one
\* ConsistentHashShuffleSender with its N bounded queues and the N
\* ConsistentHashShuffleReceivers.  Every .await of send_chunk, send_done and
\* recv is a step.  The hash of a row's key and the tokio mpsc channel are
\* outside the source files; a row is given by the vnode its key hashes to,
\* and a queue is a bounded FIFO that is closed when its sender or its
\* receiver is dropped.
\* ================================================================

Vnodes == 0..(VnodeCount - 1)

\* ConsistentHashInfo.vmap as the plan can carry it: one sink id per vnode,
\* or empty (ConsistentHashInfo::default(), which line 175 also falls back to).
VMaps == [1..VnodeCount -> 0..MaxSinkId] \cup {<<>>}

\* A data chunk: the vnode of each row's key, and the optional visibility.
Bitmaps(n) == [1..n -> BOOLEAN]
Chunks ==
    UNION {{[vnodes |-> v, has_vis |-> h, vis |-> b] :
                v \in [1..n -> Vnodes], h \in {FALSE},
                b \in {[i \in 1..n |-> TRUE]}}
           \cup
           {[vnodes |-> v, has_vis |-> h, vis |-> b] :
                v \in [1..n -> Vnodes], h \in {TRUE}, b \in Bitmaps(n)}
           : n \in 0..MaxRows}

NoChunk == [vnodes |-> <<>>, has_vis |-> FALSE, vis |-> <<>>]

\* DataChunk::cardinality of a chunk with visibility bitmap b.
ChunkCardinality(b) == Cardinality({i \in DOMAIN b : b[i]})

\* new_consistent_shuffle_channel, lines 178-184: the number of distinct
\* entries of the vmap.
OutputCount(m) == Cardinality({m[v] : v \in DOMAIN m})

\* generate_hash_values, lines 60-71: vmap[vnode of the row's key], for every
\* row of the chunk, visible or not.
generate_hash_values(chunk, m) ==
    [i \in DOMAIN chunk.vnodes |-> m[chunk.vnodes[i] + 1]]

\* generate_hash_values, line 70: the index into vmap is out of bounds.
IndexOutOfBounds(chunk, m) ==
    \E i \in DOMAIN chunk.vnodes : chunk.vnodes[i] + 1 > Len(m)

\* generate_new_data_chunks, were the chunk's own visibility not ANDed in.
generate_new_data_chunks_IgnoresVisibility(chunk, output_count, hash_values) ==
    [k \in 1..output_count |->
        [i \in DOMAIN hash_values |-> hash_values[i] = k - 1]]

\* generate_new_data_chunks, lines 81-107: for every sink the bitmap of the
\* rows whose hash value is the sink's id, ANDed with the chunk's visibility
\* if it has one.  The result holds the visibility of the derived chunks,
\* which share the rows of the input.
generate_new_data_chunks(chunk, output_count, hash_values) ==
    [k \in 1..output_count |->
        LET vis_map == [i \in DOMAIN hash_values |-> hash_values[i] = k - 1]
        IN IF chunk.has_vis
           THEN [i \in DOMAIN vis_map |-> vis_map[i] /\ chunk.vis[i]]
           ELSE vis_map]

\* The derived chunks of the call that is running.
CurrentCall == calls[Len(calls)]
NewDataChunks ==
    generate_new_data_chunks(CurrentCall.chunk, OutputCount(vmap),
                             generate_hash_values(CurrentCall.chunk, vmap))

\* What a queue holds: Some(DataChunkInChannel) or None, each with the number
\* of the call of send that put it there.
ChunkItem(id, b) == [kind |-> "chunk", id |-> id, vis |-> b]
EndOfStream(id) == [kind |-> "eos", id |-> id, vis |-> <<>>]
\* What recv returns on a closed and drained queue.
BrokenChannel == [kind |-> "broken", id |-> 0, vis |-> <<>>]

\* All handles of the sender are gone: dropped, or unwound by a panic.
SenderGone == sender_pc \in {"dropped", "panicked"}

\* what the steps of the channel leave alone
nonShuffleVars == <<recoveryVars, scheduleVars, parserVars, errorVars>>

\* new_consistent_shuffle_channel, lines 169-205: output_count queues of
\* capacity output_channel_size, one receiver for each.
ShuffleInit ==
    /\ vmap \in VMaps
    /\ output_channel_size \in 1..MaxCapacity
    /\ senders = [k \in 1..OutputCount(vmap) |-> <<>>]
    /\ receivers = 1..OutputCount(vmap)
    /\ received = [k \in 1..OutputCount(vmap) |-> <<>>]
    /\ calls = <<>>
    /\ sender_pc = "idle"
    /\ sink_id = 0

\* The call that is running returns r.
Return(r) ==
    /\ calls' = [calls EXCEPT ![Len(calls)].result = r]
    /\ sender_pc' = "idle"
    /\ sink_id' = 0

\* send(Some(c)) -> send_chunk, lines 124-128: the hash values and the derived
\* chunks are computed, then the loop over the sinks starts.
SendChunk(c) ==
    /\ sender_pc = "idle"
    /\ Len(calls) < MaxCalls
    /\ IF IndexOutOfBounds(c, vmap)
       THEN /\ calls' = Append(calls, [kind |-> "chunk", chunk |-> c, result |-> "panic"])
            /\ sender_pc' = "panicked"
       ELSE IF OutputCount(vmap) = 0
       THEN /\ calls' = Append(calls, [kind |-> "chunk", chunk |-> c, result |-> "ok"])
            /\ sender_pc' = "idle"
       ELSE /\ calls' = Append(calls, [kind |-> "chunk", chunk |-> c, result |-> "pending"])
            /\ sender_pc' = "send_chunk"
    /\ sink_id' = 0
    /\ UNCHANGED <<vmap, output_channel_size, senders, receivers, received, nonShuffleVars>>

\* The loop goes on to the next sink, or the call returns Ok(()).
NextSink ==
    IF sink_id + 1 = OutputCount(vmap)
    THEN Return("ok")
    ELSE /\ sink_id' = sink_id + 1
         /\ UNCHANGED <<calls, sender_pc>>

\* SendToSink, were the queue unbounded: the send completes at once.
SendToSink_Unbounded ==
    /\ sender_pc = "send_chunk"
    /\ ChunkCardinality(NewDataChunks[sink_id + 1]) > 0
    /\ sink_id + 1 \in receivers
    /\ senders' = [senders EXCEPT ![sink_id + 1] =
                      Append(@, ChunkItem(Len(calls), NewDataChunks[sink_id + 1]))]
    /\ NextSink
    /\ UNCHANGED <<vmap, output_channel_size, receivers, received, nonShuffleVars>>

\* SendToSink, were the send to wait until the queue has room for two items.
SendToSink_ReservesSlot ==
    /\ sender_pc = "send_chunk"
    /\ ChunkCardinality(NewDataChunks[sink_id + 1]) > 0
    /\ sink_id + 1 \in receivers
    /\ Len(senders[sink_id + 1]) + 1 < output_channel_size
    /\ senders' = [senders EXCEPT ![sink_id + 1] =
                      Append(@, ChunkItem(Len(calls), NewDataChunks[sink_id + 1]))]
    /\ NextSink
    /\ UNCHANGED <<vmap, output_channel_size, receivers, received, nonShuffleVars>>

\* send_chunk, lines 136-141: the derived chunk of sink_id has visible rows and is
\* sent; the send completes when the queue has room.
SendToSink ==
    /\ sender_pc = "send_chunk"
    /\ ChunkCardinality(NewDataChunks[sink_id + 1]) > 0
    /\ sink_id + 1 \in receivers
    /\ Len(senders[sink_id + 1]) < output_channel_size
    /\ senders' = [senders EXCEPT ![sink_id + 1] =
                      Append(@, ChunkItem(Len(calls), NewDataChunks[sink_id + 1]))]
    /\ NextSink
    /\ UNCHANGED <<vmap, output_channel_size, receivers, received, nonShuffleVars>>

\* send_chunk, line 136: a derived chunk without visible rows is not sent.
SkipEmptyChunk ==
    /\ sender_pc = "send_chunk"
    /\ ChunkCardinality(NewDataChunks[sink_id + 1]) = 0
    /\ NextSink
    /\ UNCHANGED <<vmap, output_channel_size, senders, receivers, received, nonShuffleVars>>

\* send_chunk, line 140: the receiver of the sink is gone, SenderError.
SendToSinkErr ==
    /\ sender_pc = "send_chunk"
    /\ ChunkCardinality(NewDataChunks[sink_id + 1]) > 0
    /\ sink_id + 1 \notin receivers
    /\ Return("err")
    /\ UNCHANGED <<vmap, output_channel_size, senders, receivers, received, nonShuffleVars>>

\* send(None) -> send_done, lines 146-147: the loop over the senders starts.
SendDone ==
    /\ sender_pc = "idle"
    /\ Len(calls) < MaxCalls
    /\ IF OutputCount(vmap) = 0
       THEN /\ calls' = Append(calls, [kind |-> "eos", chunk |-> NoChunk, result |-> "ok"])
            /\ sender_pc' = "idle"
       ELSE /\ calls' = Append(calls, [kind |-> "eos", chunk |-> NoChunk, result |-> "pending"])
            /\ sender_pc' = "send_done"
    /\ sink_id' = 0
    /\ UNCHANGED <<vmap, output_channel_size, senders, receivers, received, nonShuffleVars>>

\* SendDoneToSink, were None sent to the first queue only.
SendDoneToSink_FirstOnly ==
    /\ sender_pc = "send_done"
    /\ sink_id + 1 \in receivers
    /\ Len(senders[sink_id + 1]) < output_channel_size
    /\ senders' = [senders EXCEPT ![sink_id + 1] = Append(@, EndOfStream(Len(calls)))]
    /\ Return("ok")
    /\ UNCHANGED <<vmap, output_channel_size, receivers, received, nonShuffleVars>>

\* send_done, line 148: None is sent to the next queue; the send completes
\* when the queue has room.
SendDoneToSink ==
    /\ sender_pc = "send_done"
    /\ sink_id + 1 \in receivers
    /\ Len(senders[sink_id + 1]) < output_channel_size
    /\ senders' = [senders EXCEPT ![sink_id + 1] = Append(@, EndOfStream(Len(calls)))]
    /\ NextSink
    /\ UNCHANGED <<vmap, output_channel_size, receivers, received, nonShuffleVars>>

\* send_done, line 148: the receiver of the queue is gone, SenderError.
SendDoneErr ==
    /\ sender_pc = "send_done"
    /\ sink_id + 1 \notin receivers
    /\ Return("err")
    /\ UNCHANGED <<vmap, output_channel_size, senders, receivers, received, nonShuffleVars>>

\* The task that owns the sender ends and drops it.
DropSender ==
    /\ sender_pc = "idle"
    /\ sender_pc' = "dropped"
    /\ UNCHANGED <<vmap, output_channel_size, senders, receivers, received,
                   calls, sink_id, nonShuffleVars>>

\* Recv, were the newest item of the queue taken first.
Recv_NewestFirst(k) ==
    /\ k \in receivers
    /\ senders[k] # <<>>
    /\ received' = [received EXCEPT ![k] = Append(@, senders[k][Len(senders[k])])]
    /\ senders' = [senders EXCEPT ![k] = SubSeq(@, 1, Len(@) - 1)]
    /\ UNCHANGED <<vmap, output_channel_size, receivers, calls, sender_pc,
                   sink_id, nonShuffleVars>>

\* recv, lines 160-161: the queue has an item, Ok(data_chunk).
Recv(k) ==
    /\ k \in receivers
    /\ senders[k] # <<>>
    /\ received' = [received EXCEPT ![k] = Append(@, Head(senders[k]))]
    /\ senders' = [senders EXCEPT ![k] = Tail(@)]
    /\ UNCHANGED <<vmap, output_channel_size, receivers, calls, sender_pc,
                   sink_id, nonShuffleVars>>

\* RecvClosed, were the early close reported as a graceful end, Ok(None).
RecvClosed_Graceful(k) ==
    /\ k \in receivers
    /\ senders[k] = <<>>
    /\ SenderGone
    /\ received[k] = <<>>
    /\ received' = [received EXCEPT ![k] = Append(@, EndOfStream(0))]
    /\ UNCHANGED <<vmap, output_channel_size, senders, receivers, calls,
                   sender_pc, sink_id, nonShuffleVars>>

\* recv, lines 162-163: the queue is closed and drained, the receiver gets
\* None and returns Err(InternalError("broken hash_shuffle_channel")).  The
\* caller of recv stops at the error.
RecvClosed(k) ==
    /\ k \in receivers
    /\ senders[k] = <<>>
    /\ SenderGone
    /\ BrokenChannel \notin {received[k][i] : i \in DOMAIN received[k]}
    /\ received' = [received EXCEPT ![k] = Append(@, BrokenChannel)]
    /\ UNCHANGED <<vmap, output_channel_size, senders, receivers, calls,
                   sender_pc, sink_id, nonShuffleVars>>

\* The task that owns receiver k ends and drops it.
DropReceiver(k) ==
    /\ k \in receivers
    /\ receivers' = receivers \ {k}
    /\ UNCHANGED <<vmap, output_channel_size, senders, received, calls,
                   sender_pc, sink_id, nonShuffleVars>>

\* Recovery is not running: its variables keep the values of one call that has
\* not started.
RecoveryIdle ==
    /\ RecoveryInit
    /\ prev_epoch = 0
    /\ scheduled_barriers = 0
    /\ stream_job_ids = TableIds
    /\ \A t \in TableIds : table_fragments[t] = "created"
    /\ \A a \in ActorIds : actor_location[a] = 1
    /\ running = {1}

ShuffleSpecInit ==
    RecoveryIdle /\ ShuffleInit /\ ScheduleIdle /\ ParserIdle /\ ErrorIdle

ShuffleNext ==
    \/ \E c \in Chunks : SendChunk(c)
    \/ SendToSink
    \/ SkipEmptyChunk
    \/ SendToSinkErr
    \/ SendDone
    \/ SendDoneToSink
    \/ SendDoneErr
    \/ DropSender
    \/ \E k \in 1..(MaxSinkId + 1) : Recv(k)
    \/ \E k \in 1..(MaxSinkId + 1) : RecvClosed(k)
    \/ \E k \in 1..(MaxSinkId + 1) : DropReceiver(k)

ShuffleSpec == ShuffleSpecInit /\ [][ShuffleNext]_vars

\* The steps of a running send: the send to the queue of the current sink
\* completes, is skipped or fails.
SenderStep ==
    \/ SendToSink \/ SkipEmptyChunk \/ SendToSinkErr
    \/ SendDoneToSink \/ SendDoneErr

\* The runtime keeps polling the sender's task, so a send whose queue has
\* room completes; and every receiver that is alive keeps calling recv, so an
\* item that waits in its queue is taken.
ShuffleFairSpec ==
    /\ ShuffleSpec
    /\ WF_vars(SenderStep)
    /\ \A k \in 1..(MaxSinkId + 1) : WF_vars(Recv(k))

\* ------------------------------------------------ claims on the shuffle channel

\* Everything that was put on the queue of sink k (1-based), in the order of
\* the queue: what its receiver took, then what is waiting.
Delivered(k) == received[k] \o senders[k]

\* The chunks of call id on the queue of sink k.
ItemsOf(k, id) ==
    {p \in DOMAIN Delivered(k) :
        Delivered(k)[p].kind = "chunk" /\ Delivered(k)[p].id = id}

\* Row j of chunk c is visible.
Visible(c, j) == c.has_vis => c.vis[j]

\* The calls of send(Some(chunk)) that returned Ok.
ChunkCallsOk == {i \in DOMAIN calls : calls[i].kind = "chunk" /\ calls[i].result = "ok"}

\* The places (queue, position) at which row j of call i was delivered visible.
RowDeliveries(i, j) ==
    UNION {{<<k, p>> : p \in {x \in ItemsOf(k, i) : Delivered(k)[x].vis[j]}} :
              k \in DOMAIN senders}

\* C14: for whatever vmap the channel was made with, after send(Some(chunk))
\* returned Ok every visible row of the chunk is visible in exactly one
\* delivered chunk of exactly one queue, and no invisible row is visible
\* anywhere.
C14_ExchangeFidelity ==
    \A i \in ChunkCallsOk : \A j \in DOMAIN calls[i].chunk.vnodes :
        Cardinality(RowDeliveries(i, j)) = IF Visible(calls[i].chunk, j) THEN 1 ELSE 0

\* Row j of chunk c is visible and routed to sink k (1-based) by the vmap.
RoutedTo(c, j, k) == Visible(c, j) /\ vmap[c.vnodes[j] + 1] = k - 1

\* C15: after send(Some(chunk)) returned Ok, every queue to which a visible
\* row of the chunk is routed holds exactly one chunk of that call, whose
\* visibility is (row routed to the sink) AND (row visible in the input),
\* and every other queue holds none; while a call runs or after it failed a
\* queue holds at most one chunk of it, and no queue ever holds a chunk
\* without a visible row.
C15_OneDerivedChunkPerSink ==
    /\ \A i \in ChunkCallsOk : \A k \in DOMAIN senders :
          /\ Cardinality(ItemsOf(k, i)) =
                IF \E j \in DOMAIN calls[i].chunk.vnodes : RoutedTo(calls[i].chunk, j, k)
                THEN 1 ELSE 0
    /\ \A i \in DOMAIN calls : \A k \in DOMAIN senders :
          /\ Cardinality(ItemsOf(k, i)) <= 1
          /\ \A p \in ItemsOf(k, i) :
                /\ calls[i].kind = "chunk"
                /\ DOMAIN Delivered(k)[p].vis = DOMAIN calls[i].chunk.vnodes
                /\ \A j \in DOMAIN calls[i].chunk.vnodes :
                      Delivered(k)[p].vis[j] <=> RoutedTo(calls[i].chunk, j, k)
                /\ \E j \in DOMAIN calls[i].chunk.vnodes : Delivered(k)[p].vis[j]

\* C15 witness: a chunk with an invisible row was sent to two sinks; one got
\* its derived chunk, the other, to which only the invisible row is routed,
\* got nothing.
C15_Witness ==
    \E i \in ChunkCallsOk :
        /\ OutputCount(vmap) = 2
        /\ \E j \in DOMAIN calls[i].chunk.vnodes : ~Visible(calls[i].chunk, j)
        /\ \E k \in DOMAIN senders : ItemsOf(k, i) # {}
        /\ \E k \in DOMAIN senders :
              /\ ItemsOf(k, i) = {}
              /\ \E j \in DOMAIN calls[i].chunk.vnodes : vmap[calls[i].chunk.vnodes[j] + 1] = k - 1

\* The positions of the end-of-stream markers of call id on the queue of sink k.
MarkersOf(k, id) ==
    {p \in DOMAIN Delivered(k) :
        Delivered(k)[p].kind = "eos" /\ Delivered(k)[p].id = id}

\* C16: after send(None) returned Ok, every one of the N queues holds exactly
\* one end-of-stream marker of that call, also the queues that got no chunk,
\* and in every queue the marker comes after every chunk of the earlier calls;
\* a send(None) returns Ok only if no receiver was found gone.
C16_EndOfStreamToAll ==
    \A i \in DOMAIN calls :
        (calls[i].kind = "eos" /\ calls[i].result = "ok") =>
            \A k \in DOMAIN senders :
                /\ Cardinality(MarkersOf(k, i)) = 1
                /\ \A p \in MarkersOf(k, i) : \A q \in DOMAIN Delivered(k) :
                      (Delivered(k)[q].kind = "chunk" /\ Delivered(k)[q].id < i) => q < p
                /\ \A p \in MarkersOf(k, i) : \A q \in 1..(p - 1) :
                      Delivered(k)[q].id < i

\* C16 witness: the end of stream was sent to two queues after a chunk; one
\* receiver took the chunk and then the marker, the other queue got the
\* marker only.
C16_Witness ==
    /\ Len(calls) = 2
    /\ calls[1].kind = "chunk" /\ calls[2].kind = "eos" /\ calls[2].result = "ok"
    /\ OutputCount(vmap) = 2
    /\ \E k \in DOMAIN senders :
          /\ Len(received[k]) = 2
          /\ received[k][1].kind = "chunk" /\ received[k][2].kind = "eos"
    /\ \E k \in DOMAIN senders : Len(Delivered(k)) = 1 /\ Delivered(k)[1].kind = "eos"

\* C17: recv returns the broken-channel error only on a queue that is drained
\* and whose sender is gone, and there it returns nothing else; the graceful
\* end Ok(None) is returned only for a marker that a call of send(None) put on
\* the queue.  A receiver whose queue was closed and drained without a marker
\* can get nothing but the error.
C17_EarlyCloseIsError ==
    /\ [](\A k \in DOMAIN received : \A p \in DOMAIN received[k] :
             /\ received[k][p].kind = "eos" =>
                   /\ received[k][p].id \in DOMAIN calls
                   /\ calls[received[k][p].id].kind = "eos"
             /\ received[k][p].kind = "broken" => SenderGone)
    /\ [][\A k \in DOMAIN received :
             (received'[k] # received[k] /\ senders[k] = <<>>) =>
                 /\ SenderGone
                 /\ received'[k] = Append(received[k], BrokenChannel)]_vars
    /\ [][\A k \in DOMAIN received :
             (received'[k] # received[k] /\ senders[k] # <<>>) =>
                 /\ received'[k] = Append(received[k], Head(senders[k]))
                 /\ Head(senders[k]) # BrokenChannel]_vars
    /\ [](\A k \in receivers :
             (senders[k] = <<>> /\ SenderGone
              /\ BrokenChannel \notin {received[k][p] : p \in DOMAIN received[k]})
                 => ENABLED RecvClosed(k))

\* C17 witness: a receiver took a chunk and then got the error, the sender
\* having been dropped without sending the end of stream.
C17_Witness ==
    /\ sender_pc = "dropped"
    /\ \A i \in DOMAIN calls : calls[i].kind = "chunk"
    /\ \E k \in DOMAIN received :
          /\ Len(received[k]) = 2
          /\ received[k][1].kind = "chunk"
          /\ received[k][2] = BrokenChannel

\* C18: on every queue, and in what its receiver has taken, the chunks are in
\* the order of the calls of send that produced them.
C18_SenderOrder ==
    \A k \in DOMAIN senders :
        /\ \A p, q \in DOMAIN Delivered(k) :
              (p < q /\ Delivered(k)[p].kind = "chunk" /\ Delivered(k)[q].kind = "chunk")
                 => Delivered(k)[p].id < Delivered(k)[q].id
        /\ \A p, q \in DOMAIN received[k] :
              (p < q /\ received[k][p].kind = "chunk" /\ received[k][q].kind = "chunk")
                 => received[k][p].id < received[k][q].id

\* C18 witness: a receiver has taken the parts of two chunks.
C18_Witness ==
    \E k \in DOMAIN received :
        /\ Len(received[k]) = 2
        /\ received[k][1].kind = "chunk" /\ received[k][1].id = 1
        /\ received[k][2].kind = "chunk" /\ received[k][2].id = 2

\* The sender waits in a send to the queue of sink_id, which is full.
SendBlocked ==
    /\ sender_pc \in {"send_chunk", "send_done"}
    /\ sink_id + 1 \in receivers
    /\ Len(senders[sink_id + 1]) = output_channel_size
    /\ sender_pc = "send_chunk" => ChunkCardinality(NewDataChunks[sink_id + 1]) > 0

\* C19: no queue ever holds more than output_channel_size items, and while a
\* send waits on a full queue the call does not advance and nothing is put
\* on, dropped from or changed in any queue except the items the receivers
\* take from the head.
C19_BoundedQueues ==
    /\ [](\A k \in DOMAIN senders : Len(senders[k]) <= output_channel_size)
    /\ [][SendBlocked =>
            /\ UNCHANGED <<calls, sender_pc, sink_id>>
            /\ \A k \in DOMAIN senders :
                  \/ senders'[k] = senders[k]
                  \/ /\ senders[k] # <<>>
                     /\ senders'[k] = Tail(senders[k])
                     /\ received'[k] = Append(received[k], Head(senders[k]))]_vars

\* C19 witness: the second chunk waits for room on a queue of capacity one.
C19_Witness ==
    /\ SendBlocked
    /\ sender_pc = "send_chunk"
    /\ output_channel_size = 1
    /\ Len(calls) = 2

\* ================================================================
\* The fragment scheduler (src/src/meta/src/stream/scheduler.rs):
\* Scheduler::new, Scheduler::schedule and ScheduledLocations.  schedule is a
\* synchronous function, one call is one step.  ParallelUnitMapping (build,
\* to_bitmaps, from_bitmaps) is outside the source files and is modelled as
\* the specification describes it.  A bitmap is the set of its vnodes.
\* ================================================================

\* The ids an actor can have or can name as its co-located upstream.
MaxActorId == MaxFragments * MaxActors

ParallelUnit(id, w) == [id |-> id, worker_node_id |-> w]

\* Option<Buffer> and Option<vnode mapping>.
NoBitmap == [some |-> FALSE, bits |-> {}]
SomeBitmap(b) == [some |-> TRUE, bits |-> b]
NoMapping == [some |-> FALSE, map |-> <<>>]
SomeMapping(m) == [some |-> TRUE, map |-> m]

\* Put, were the map started anew with the inserted entry.
Put_OnlyNew(f, k, v) == [x \in {k} |-> v]

\* map.insert(k, v)
Put(f, k, v) == [x \in DOMAIN f \cup {k} |-> IF x = k THEN v ELSE f[x]]

\* The elements of a set of numbers in ascending order.
RECURSIVE Ascending(_)
Ascending(S) ==
    IF S = {} THEN <<>>
    ELSE LET m == CHOOSE x \in S : \A y \in S : x <= y
         IN <<m>> \o Ascending(S \ {m})

\* Scheduler::new, lines 135-141: the units of worker w in the given order.
UnitsOf(pus, w) == SelectSeq(pus, LAMBDA p : p.worker_node_id = w)

\* RoundRobin, were the units kept in the order in which they were given.
RoundRobin_GivenOrder(pus, r) == pus

\* Scheduler::new, lines 148-158: round r takes the next unit of every worker
\* that has one left, the workers in the order of their ids.
RECURSIVE RoundRobin(_, _)
RoundRobin(pus, r) ==
    LET ws == {w \in {pus[i].worker_node_id : i \in DOMAIN pus} : Len(UnitsOf(pus, w)) >= r}
        order == Ascending(ws)
    IN IF ws = {} THEN <<>>
       ELSE [k \in DOMAIN order |-> UnitsOf(pus, order[k])[r]] \o RoundRobin(pus, r + 1)

\* ParallelUnitMapping::build: the vnodes are given to the units in
\* contiguous, balanced shares (sizes differ by at most one), in the order of
\* the units.  The result maps vnode v to the id at index v + 1.
Build(pus) ==
    LET n == Len(pus)
        size == VnodeCount \div n
        rem == VnodeCount % n
        IndexOf(v) == IF v < rem * (size + 1)
                      THEN (v \div (size + 1)) + 1
                      ELSE rem + ((v - rem * (size + 1)) \div size) + 1
    IN [i \in 1..VnodeCount |-> pus[IndexOf(i - 1)].id]

\* ParallelUnitMapping::to_bitmaps: unit id -> the vnodes mapped to it.
ToBitmaps(m) ==
    [p \in {m[i] : i \in DOMAIN m} |-> {v \in Vnodes : m[v + 1] = p}]

\* ParallelUnitMapping::from_bitmaps accepts bitmaps that cover every vnode
\* exactly once.
ExactCover(bitmaps) ==
    \A v \in Vnodes : Cardinality({p \in DOMAIN bitmaps : v \in bitmaps[p]}) = 1

\* ParallelUnitMapping::from_bitmaps of an exact cover.
FromBitmaps(bitmaps) ==
    [i \in 1..VnodeCount |-> CHOOSE p \in DOMAIN bitmaps : (i - 1) \in bitmaps[p]]

\* ColocateWith, were only the first actor id looked up.
ColocateWith_FirstOnly(locations, actor_ids, result_location) ==
    IF actor_ids = <<>>
    THEN [kind |-> "panic", unit |-> result_location]
    ELSE IF Head(actor_ids) \notin DOMAIN locations
    THEN [kind |-> "err: actor location not found", unit |-> result_location]
    ELSE [kind |-> "ok", unit |-> locations[Head(actor_ids)]]

\* ScheduledLocations::schedule_colocate_with, lines 108-129.
RECURSIVE ColocateWith(_, _, _)
ColocateWith(locations, actor_ids, result_location) ==
    IF actor_ids = <<>>
    THEN IF result_location = ParallelUnit(0, 0)
         THEN [kind |-> "panic", unit |-> result_location]
         ELSE [kind |-> "ok", unit |-> result_location]
    ELSE IF Head(actor_ids) \notin DOMAIN locations
    THEN [kind |-> "err: actor location not found", unit |-> result_location]
    ELSE IF result_location = ParallelUnit(0, 0)
    THEN ColocateWith(locations, Tail(actor_ids), locations[Head(actor_ids)])
    ELSE IF result_location # locations[Head(actor_ids)]
    THEN [kind |-> "err: cannot satisfy placement rule", unit |-> result_location]
    ELSE ColocateWith(locations, Tail(actor_ids), result_location)

schedule_colocate_with(locations, actor_ids) ==
    ColocateWith(locations, actor_ids, ParallelUnit(0, 0))

\* A StreamActor as schedule is given it: the co-located upstream is 0 for None.
StreamActor(id, colocated) ==
    [actor_id |-> id,
     upstream_actor_id |-> IF colocated = 0 THEN {} ELSE {colocated},
     colocated_upstream_actor_id |-> colocated,
     vnode_bitmap |-> NoBitmap]

\* The fragments schedule can be given: a distribution type and up to
\* MaxActors actors (at most one per vnode) with fresh ids from first_id on,
\* each with or without a co-located upstream actor.
FragmentInputs(first_id) ==
    {[distribution_type |-> t,
      actors |-> [k \in DOMAIN c |-> StreamActor(first_id + k - 1, c[k])],
      vnode_mapping |-> NoMapping] :
        t \in {"Single", "Hash"},
        c \in UNION {[1..n -> 0..MaxActorId] : n \in 0..Min(MaxActors, VnodeCount)}}

\* What a call of schedule leaves behind.
Outcome(r, fragment, locations, bitmaps) ==
    [result |-> r, fragment |-> fragment, actor_locations |-> locations,
     actor_vnode_bitmaps |-> bitmaps]

\* set_fragment_vnode_mapping, were the mapping built but not stored.
set_fragment_vnode_mapping_NotStored(fragment, pus) == fragment

\* set_fragment_vnode_mapping, lines 283-291.
set_fragment_vnode_mapping(fragment, pus) ==
    [fragment EXCEPT !.vnode_mapping = SomeMapping(Build(pus))]

\* ScheduleSingletonOn, were the singleton always placed on the last unit of
\* the round-robin order.
ScheduleSingletonOn_LastUnit(fragment, parallel_unit) ==
    Outcome("ok",
            set_fragment_vnode_mapping(fragment, <<all_parallel_units[Len(all_parallel_units)]>>),
            Put(actor_locations, fragment.actors[1].actor_id,
                all_parallel_units[Len(all_parallel_units)]),
            actor_vnode_bitmaps)

\* schedule, lines 178-204: a singleton fragment placed on parallel_unit.
ScheduleSingletonOn(fragment, parallel_unit) ==
    Outcome("ok",
            set_fragment_vnode_mapping(fragment, <<parallel_unit>>),
            Put(actor_locations, fragment.actors[1].actor_id, parallel_unit),
            actor_vnode_bitmaps)

\* SortById, were the units left in the round-robin order.
SortById_Unsorted(pus) == pus

\* schedule, lines 255-273: the first N units of the round-robin order, sorted
\* by id; the k-th actor gets the k-th unit and that unit's bitmap.
SortById(pus) ==
    LET ids == Ascending({pus[i].id : i \in DOMAIN pus})
    IN [k \in DOMAIN ids |-> CHOOSE p \in {pus[i] : i \in DOMAIN pus} : p.id = ids[k]]

ScheduleRoundRobin(fragment) ==
    LET n == Len(fragment.actors)
        units == SortById(SubSeq(all_parallel_units, 1, n))
        mapped == set_fragment_vnode_mapping(fragment, units)
        vnode_bitmaps == ToBitmaps(mapped.vnode_mapping.map)
    IN IF \E k \in 1..n : units[k].id \notin DOMAIN vnode_bitmaps
       THEN Outcome("panic", mapped, actor_locations, actor_vnode_bitmaps)
       ELSE Outcome("ok",
              [mapped EXCEPT !.actors =
                  [k \in 1..n |-> [fragment.actors[k] EXCEPT
                       !.vnode_bitmap = SomeBitmap(vnode_bitmaps[units[k].id])]]],
              [a \in DOMAIN actor_locations \cup {fragment.actors[k].actor_id : k \in 1..n} |->
                  IF \E k \in 1..n : fragment.actors[k].actor_id = a
                  THEN units[CHOOSE k \in 1..n : fragment.actors[k].actor_id = a]
                  ELSE actor_locations[a]],
              [a \in DOMAIN actor_vnode_bitmaps \cup {fragment.actors[k].actor_id : k \in 1..n} |->
                  IF \E k \in 1..n : fragment.actors[k].actor_id = a
                  THEN SomeBitmap(vnode_bitmaps[units[CHOOSE k \in 1..n :
                                                   fragment.actors[k].actor_id = a].id])
                  ELSE actor_vnode_bitmaps[a]])

\* schedule, lines 218-250: the loop over the actors of a co-located hash
\* fragment from actor k on, then the fragment's mapping from the bitmaps
\* collected per unit.  An error or a panic leaves what the loop has done.
RECURSIVE ScheduleColocated(_, _, _, _, _)
ScheduleColocated(fragment, k, locations, bitmaps, parallel_unit_bitmap) ==
    IF k > Len(fragment.actors)
    THEN IF ExactCover(parallel_unit_bitmap)
         THEN Outcome("ok",
                [fragment EXCEPT !.vnode_mapping = SomeMapping(FromBitmaps(parallel_unit_bitmap))],
                locations, bitmaps)
         ELSE Outcome("panic", fragment, locations, bitmaps)
    ELSE LET actor == fragment.actors[k]
             up == actor.colocated_upstream_actor_id
             found == schedule_colocate_with(locations, <<up>>)
         IN IF up = 0 \/ actor.upstream_actor_id = {}
            THEN Outcome("panic", fragment, locations, bitmaps)
            ELSE IF found.kind # "ok"
            THEN Outcome(found.kind, fragment, locations, bitmaps)
            ELSE IF up \notin DOMAIN bitmaps
            THEN Outcome("panic", fragment, locations, bitmaps)
            ELSE ScheduleColocated(
                    [fragment EXCEPT !.actors[k].vnode_bitmap = bitmaps[up]],
                    k + 1,
                    Put(locations, actor.actor_id, found.unit),
                    Put(bitmaps, actor.actor_id, bitmaps[up]),
                    IF bitmaps[up].some
                    THEN Put(parallel_unit_bitmap, found.unit.id, bitmaps[up].bits)
                    ELSE parallel_unit_bitmap)

\* NotEnoughUnits, were the capacity looked at only when no actor declares a
\* co-located upstream.
NotEnoughUnits_UnlessColocated(fragment) ==
    /\ Len(all_parallel_units) < Len(fragment.actors)
    /\ \A k \in DOMAIN fragment.actors :
          fragment.actors[k].colocated_upstream_actor_id = 0

\* schedule, line 207: the fragment has more actors than there are units.
NotEnoughUnits(fragment) == Len(all_parallel_units) < Len(fragment.actors)

\* Scheduler::schedule, lines 169-278.  choice is the index that the random
\* choice of a singleton's unit picks.
schedule(fragment, choice) ==
    IF fragment.actors = <<>>
    THEN Outcome("err: fragment has no actor", fragment, actor_locations, actor_vnode_bitmaps)
    ELSE IF fragment.distribution_type = "Single"
    THEN IF Len(fragment.actors) # 1
         THEN Outcome("panic", fragment, actor_locations, actor_vnode_bitmaps)
         ELSE IF fragment.actors[1].colocated_upstream_actor_id # 0
         THEN LET found == schedule_colocate_with(
                              actor_locations,
                              <<fragment.actors[1].colocated_upstream_actor_id>>)
              IN IF fragment.actors[1].upstream_actor_id = {}
                 THEN Outcome("panic", fragment, actor_locations, actor_vnode_bitmaps)
                 ELSE IF found.kind # "ok"
                 THEN Outcome(found.kind, fragment, actor_locations, actor_vnode_bitmaps)
                 ELSE ScheduleSingletonOn(fragment, found.unit)
         ELSE IF all_parallel_units = <<>>
         THEN Outcome("err: no parallel unit to schedule", fragment,
                      actor_locations, actor_vnode_bitmaps)
         ELSE ScheduleSingletonOn(fragment, all_parallel_units[choice])
    ELSE IF NotEnoughUnits(fragment)
    THEN Outcome("err: not enough parallel units to schedule", fragment,
                 actor_locations, actor_vnode_bitmaps)
    ELSE IF \E k \in DOMAIN fragment.actors :
                fragment.actors[k].colocated_upstream_actor_id # 0
    THEN ScheduleColocated(fragment, 1, actor_locations, actor_vnode_bitmaps, <<>>)
    ELSE ScheduleRoundRobin(fragment)

\* Scheduler::new, lines 133-163, on any parallel units of the workers.
ScheduleInit ==
    /\ parallel_units \in
          UNION {{[i \in 1..n |-> ParallelUnit(i, w[i])] : w \in [1..n -> 1..NumPUWorkers]} :
                    n \in 0..MaxPUs}
    /\ all_parallel_units = RoundRobin(parallel_units, 1)
    /\ actor_locations = <<>>
    /\ actor_vnode_bitmaps = <<>>
    /\ fragments = <<>>

\* A panic of schedule ends the process.
SchedulerAlive == \A i \in DOMAIN fragments : fragments[i].result # "panic"

\* The actors that the fragments given to schedule so far had.
ActorsGiven ==
    IF fragments = <<>> THEN 0
    ELSE LET Sum[i \in 0..Len(fragments)] ==
                 IF i = 0 THEN 0 ELSE Sum[i - 1] + Len(fragments[i].input.actors)
         IN Sum[Len(fragments)]

\* One call of schedule on the shared ScheduledLocations.
Scheduled(fragment, choice) ==
    LET o == schedule(fragment, choice)
    IN /\ actor_locations' = o.actor_locations
       /\ actor_vnode_bitmaps' = o.actor_vnode_bitmaps
       /\ fragments' = Append(fragments,
                          [input |-> fragment, output |-> o.fragment, result |-> o.result])
       /\ UNCHANGED <<parallel_units, all_parallel_units, recoveryVars, shuffleVars,
                      parserVars, errorVars>>

\* schedule of a singleton fragment, lines 178-204.
ScheduleSingleton ==
    /\ SchedulerAlive
    /\ Len(fragments) < MaxFragments
    /\ \E fragment \in FragmentInputs(ActorsGiven + 1) :
          /\ fragment.distribution_type = "Single"
          /\ \E choice \in 1..Len(all_parallel_units) \cup {1} :
                Scheduled(fragment, choice)

\* schedule of a hash fragment, lines 206-274.
ScheduleHash ==
    /\ SchedulerAlive
    /\ Len(fragments) < MaxFragments
    /\ \E fragment \in FragmentInputs(ActorsGiven + 1) :
          /\ fragment.distribution_type = "Hash"
          /\ Scheduled(fragment, 1)

ScheduleSpecInit ==
    RecoveryIdle /\ ShuffleIdle /\ ScheduleInit /\ ParserIdle /\ ErrorIdle

ScheduleNext == ScheduleSingleton \/ ScheduleHash

ScheduleSpec == ScheduleSpecInit /\ [][ScheduleNext]_vars

\* ------------------------------------------------------ claims on the scheduler

\* The calls of schedule on a hash fragment that returned Ok.
HashScheduled ==
    {i \in DOMAIN fragments :
        fragments[i].result = "ok" /\ fragments[i].input.distribution_type = "Hash"}

\* The vnode bitmaps of the actors of fragment f are pairwise disjoint and
\* cover every vnode.
BitmapsPartition(f) ==
    /\ \A k \in DOMAIN f.actors : f.actors[k].vnode_bitmap.some
    /\ \A k, l \in DOMAIN f.actors :
          k # l => f.actors[k].vnode_bitmap.bits \cap f.actors[l].vnode_bitmap.bits = {}
    /\ UNION {f.actors[k].vnode_bitmap.bits : k \in DOMAIN f.actors} = Vnodes

\* C20: after a hash fragment was scheduled successfully, round-robin or by
\* co-location, the vnode bitmaps of its actors are pairwise disjoint and
\* their union is every vnode.
C20_VnodeCoverage ==
    \A i \in HashScheduled : BitmapsPartition(fragments[i].output)

\* The calls of schedule that returned Ok.
OkCalls == {i \in DOMAIN fragments : fragments[i].result = "ok"}

\* The actor with id b as the call of schedule that was given it left it.
ActorOut(b) ==
    CHOOSE a \in UNION {{fragments[i].output.actors[k] : k \in DOMAIN fragments[i].output.actors} :
                           i \in DOMAIN fragments} : a.actor_id = b

\* Actor a of a scheduled fragment is recorded on the unit of its declared
\* co-located upstream actor.
OnUnitOfUpstream(a) ==
    /\ a.actor_id \in DOMAIN actor_locations
    /\ a.colocated_upstream_actor_id \in DOMAIN actor_locations
    /\ actor_locations[a.actor_id] = actor_locations[a.colocated_upstream_actor_id]

\* C21 as stated: after a successful schedule, every actor that declares a
\* co-located upstream, in a singleton or in a hash fragment, is recorded on
\* the upstream's unit and has the upstream's vnode bitmap.
C21_ColocationSameBitmap ==
    \A i \in OkCalls : \A k \in DOMAIN fragments[i].output.actors :
        LET a == fragments[i].output.actors[k]
        IN a.colocated_upstream_actor_id # 0 =>
              /\ OnUnitOfUpstream(a)
              /\ a.vnode_bitmap = ActorOut(a.colocated_upstream_actor_id).vnode_bitmap

\* C21 amended: after a successful schedule, every actor that declares a
\* co-located upstream is recorded on the upstream's unit; an actor of a hash
\* fragment also has the upstream's vnode bitmap, in the fragment and in
\* actor_vnode_bitmaps, while the actor of a singleton fragment keeps its
\* vnode bitmap unset whatever bitmap the upstream has.
C21_ColocationSameUnit ==
    \A i \in OkCalls : \A k \in DOMAIN fragments[i].output.actors :
        LET a == fragments[i].output.actors[k]
            up == a.colocated_upstream_actor_id
        IN up # 0 =>
              /\ OnUnitOfUpstream(a)
              /\ fragments[i].input.distribution_type = "Hash" =>
                    /\ a.vnode_bitmap = ActorOut(up).vnode_bitmap
                    /\ a.vnode_bitmap.some
                    /\ actor_vnode_bitmaps[a.actor_id] = actor_vnode_bitmaps[up]
                    /\ actor_vnode_bitmaps[a.actor_id] = a.vnode_bitmap
              /\ fragments[i].input.distribution_type = "Single" =>
                    /\ a.vnode_bitmap = NoBitmap
                    /\ a.actor_id \notin DOMAIN actor_vnode_bitmaps

\* C21 witness: a singleton was placed on the unit of its upstream, an actor
\* of a hash fragment that has a bitmap and is not on the last unit.
C21_Witness ==
    /\ Len(fragments) = 2
    /\ OkCalls = {1, 2}
    /\ fragments[2].input.distribution_type = "Single"
    /\ fragments[2].input.actors[1].colocated_upstream_actor_id # 0
    /\ ActorOut(fragments[2].input.actors[1].colocated_upstream_actor_id).vnode_bitmap.some
    /\ Len(all_parallel_units) >= 2
    /\ actor_locations[fragments[2].input.actors[1].actor_id] = all_parallel_units[1]

\* The workers that own a parallel unit.
UnitWorkers == {parallel_units[i].worker_node_id : i \in DOMAIN parallel_units}

\* How many of the first n units of order belong to worker w.
UnitsAmong(order, n, w) ==
    Cardinality({i \in 1..n : order[i].worker_node_id = w})

\* The calls of schedule that placed a hash fragment round-robin.
RoundRobinScheduled ==
    {i \in HashScheduled :
        \A k \in DOMAIN fragments[i].input.actors :
            fragments[i].input.actors[k].colocated_upstream_actor_id = 0}

\* The units on which the actors of call i were recorded, in actor order.
UnitsOfCall(i) ==
    [k \in DOMAIN fragments[i].input.actors |->
        actor_locations[fragments[i].input.actors[k].actor_id]]

\* The scenario of 4 workers with 4 units each: the units an 8-actor hash
\* fragment is given (the sorted first 8 of the round-robin order).
ScenarioUnits ==
    LET pus == [i \in 1..16 |-> ParallelUnit(i, ((i - 1) \div 4) + 1)]
    IN SortById(SubSeq(RoundRobin(pus, 1), 1, 8))

\* C22: all_parallel_units is a permutation of the given units in which every
\* prefix holds of each worker at most one unit more than of any worker that
\* still has a unit left; a hash fragment without co-location whose N actors
\* are not more than the workers is recorded on N distinct workers; and with
\* 4 workers of 4 units an 8-actor fragment gets 8 distinct units, 2 of
\* each worker.
C22_RoundRobinOrder ==
    /\ Len(all_parallel_units) = Len(parallel_units)
    /\ {all_parallel_units[i] : i \in DOMAIN all_parallel_units}
          = {parallel_units[i] : i \in DOMAIN parallel_units}
    /\ \A n \in 0..Len(all_parallel_units) : \A w1, w2 \in UnitWorkers :
          \/ UnitsAmong(all_parallel_units, n, w1) <= UnitsAmong(all_parallel_units, n, w2) + 1
          \/ UnitsAmong(all_parallel_units, n, w2)
                = UnitsAmong(all_parallel_units, Len(all_parallel_units), w2)
    /\ \A i \in RoundRobinScheduled :
          Len(fragments[i].input.actors) <= Cardinality(UnitWorkers) =>
              Cardinality({UnitsOfCall(i)[k].worker_node_id : k \in DOMAIN UnitsOfCall(i)})
                 = Len(fragments[i].input.actors)
    /\ Cardinality({ScenarioUnits[k] : k \in 1..8}) = 8
    /\ \A w \in 1..4 : UnitsAmong(ScenarioUnits, 8, w) = 2

\* C22 witness: the first two units given belong to one worker, and a hash
\* fragment of two actors was placed on two workers.
C22_Witness ==
    \E i \in RoundRobinScheduled :
        /\ Len(fragments[i].input.actors) = 2
        /\ parallel_units[1].worker_node_id = parallel_units[2].worker_node_id
        /\ UnitsOfCall(i)[1].worker_node_id # UnitsOfCall(i)[2].worker_node_id

\* The last call of schedule.
LastCall == fragments[Len(fragments)]

\* A call of schedule on a hash fragment with more actors than there are
\* parallel units.
OverCapacity(call) ==
    /\ call.input.distribution_type = "Hash"
    /\ Len(call.input.actors) > Len(all_parallel_units)

\* C23: a call of schedule on a hash fragment with more actors than parallel
\* units, with or without co-located upstreams, returns the error "not enough
\* parallel units to schedule" and leaves the fragment, actor_locations and
\* actor_vnode_bitmaps as they were; so every hash fragment scheduled
\* successfully has at most as many actors as there are parallel units.
C23_NotEnoughCapacity ==
    [][/\ (Len(fragments') = Len(fragments) + 1 /\ OverCapacity(LastCall')) =>
             /\ LastCall'.result = "err: not enough parallel units to schedule"
             /\ LastCall'.output = LastCall'.input
             /\ actor_locations' = actor_locations
             /\ actor_vnode_bitmaps' = actor_vnode_bitmaps
       /\ \A i \in HashScheduled' :
             Len(fragments'[i].input.actors) <= Len(all_parallel_units')]_vars

\* C23 witness: after an actor was placed, a hash fragment with more actors
\* than units, all co-located with the placed actor, was refused.
C23_Witness ==
    /\ Len(fragments) = 2
    /\ fragments[1].result = "ok"
    /\ OverCapacity(LastCall)
    /\ \A k \in DOMAIN LastCall.input.actors :
          LastCall.input.actors[k].colocated_upstream_actor_id \in DOMAIN actor_locations
    /\ LastCall.result = "err: not enough parallel units to schedule"

\* The calls of schedule on a singleton fragment that returned Ok.
SingletonScheduled ==
    {i \in DOMAIN fragments :
        fragments[i].result = "ok" /\ fragments[i].input.distribution_type = "Single"}

\* C24: after a singleton fragment was scheduled successfully, its
\* vnode_mapping is set and maps every vnode to the unit recorded for its
\* actor in actor_locations, and the actor's vnode_bitmap is unset.
C24_SingletonMapping ==
    \A i \in SingletonScheduled :
        LET f == fragments[i].output
            a == f.actors[1]
        IN /\ Len(f.actors) = 1
           /\ a.actor_id \in DOMAIN actor_locations
           /\ f.vnode_mapping.some
           /\ DOMAIN f.vnode_mapping.map = 1..VnodeCount
           /\ \A v \in Vnodes : f.vnode_mapping.map[v + 1] = actor_locations[a.actor_id].id
           /\ a.vnode_bitmap = NoBitmap

\* C24 witness: a singleton without co-location was placed on the second
\* unit of the round-robin order and every vnode maps to that unit.
C24_Witness ==
    \E i \in SingletonScheduled :
        /\ fragments[i].input.actors[1].colocated_upstream_actor_id = 0
        /\ Len(all_parallel_units) >= 2
        /\ actor_locations[fragments[i].input.actors[1].actor_id] = all_parallel_units[2]
        /\ \A v \in Vnodes :
              fragments[i].output.vnode_mapping.map[v + 1] = all_parallel_units[2].id

\* The non-empty lists of actor ids of up to three ids.
ActorIdLists == UNION {[1..n -> 1..MaxActorId] : n \in 1..3}

\* Every actor of ids is placed, and all on one unit.
PlacedTogether(ids) ==
    /\ \A k \in DOMAIN ids : ids[k] \in DOMAIN actor_locations
    /\ \A k, l \in DOMAIN ids : actor_locations[ids[k]] = actor_locations[ids[l]]

\* The errors of schedule_colocate_with.
ColocateErrors == {"err: actor location not found", "err: cannot satisfy placement rule"}

\* C25: a call of schedule on a singleton fragment whose actor declares a
\* co-located upstream records the actor on the unit recorded for the upstream
\* if the upstream is placed, and returns an error leaving actor_locations
\* as it was if not; and schedule_colocate_with on a list of actor ids returns
\* the common unit if all are placed on one unit and an error otherwise.
C25_SingletonColocation ==
    [][/\ (/\ Len(fragments') = Len(fragments) + 1
           /\ LastCall'.input.distribution_type = "Single"
           /\ Len(LastCall'.input.actors) = 1
           /\ LastCall'.input.actors[1].colocated_upstream_actor_id # 0) =>
             LET a == LastCall'.input.actors[1]
                 up == a.colocated_upstream_actor_id
             IN IF up \in DOMAIN actor_locations
                THEN /\ LastCall'.result = "ok"
                     /\ actor_locations' = Put(actor_locations, a.actor_id, actor_locations[up])
                ELSE /\ LastCall'.result = "err: actor location not found"
                     /\ actor_locations' = actor_locations
       /\ \A ids \in ActorIdLists :
             LET r == schedule_colocate_with(actor_locations, ids)
             IN IF PlacedTogether(ids)
                THEN r.kind = "ok" /\ r.unit = actor_locations[ids[1]]
                ELSE r.kind \in ColocateErrors]_vars

\* C25 witness: two actors are placed on different units and a singleton
\* co-located with the one that is not on the first unit of the round-robin
\* order was placed on that actor's unit.
C25_Witness ==
    /\ Len(fragments) = 2
    /\ LastCall.result = "ok"
    /\ LastCall.input.distribution_type = "Single"
    /\ LastCall.input.actors[1].colocated_upstream_actor_id \in DOMAIN actor_locations
    /\ \E b \in DOMAIN actor_locations :
          actor_locations[b] # actor_locations[LastCall.input.actors[1].actor_id]
    /\ actor_locations[LastCall.input.actors[1].actor_id] # all_parallel_units[1]
    /\ actor_locations[LastCall.input.actors[1].actor_id]
          = actor_locations[LastCall.input.actors[1].colocated_upstream_actor_id]

\* The bitmap that vnode mapping m gives to the unit with id p.
BitmapOfUnit(m, p) == SomeBitmap({v \in Vnodes : m[v + 1] = p})

\* C26: a hash fragment of N actors scheduled without co-location is recorded
\* on the first N units of the round-robin order, one actor per unit, in the
\* order of the unit ids, and each actor got the bitmap of its unit in the
\* fragment's vnode_mapping.
C26_RoundRobinPlacement ==
    \A i \in RoundRobinScheduled :
        LET f == fragments[i].output
            n == Len(f.actors)
            units == UnitsOfCall(i)
        IN /\ n <= Len(all_parallel_units)
           /\ {units[k] : k \in 1..n} = {all_parallel_units[j] : j \in 1..n}
           /\ \A k, l \in 1..n : k < l => units[k].id < units[l].id
           /\ f.vnode_mapping.some
           /\ \A k \in 1..n :
                 /\ f.actors[k].vnode_bitmap = BitmapOfUnit(f.vnode_mapping.map, units[k].id)
                 /\ actor_vnode_bitmaps[f.actors[k].actor_id] = f.actors[k].vnode_bitmap

\* C26 witness: the round-robin order starts with a unit of larger id than
\* its second unit, and a hash fragment of two actors has its first actor on
\* the second unit of the order.
C26_Witness ==
    \E i \in RoundRobinScheduled :
        /\ Len(fragments[i].input.actors) = 2
        /\ all_parallel_units[1].id > all_parallel_units[2].id
        /\ UnitsOfCall(i)[1] = all_parallel_units[2]
        /\ UnitsOfCall(i)[2] = all_parallel_units[1]

\* A call of schedule on a hash fragment that goes through the co-location
\* loop to its end: enough units, and every actor declares an upstream that
\* has a bitmap entry.
InheritsAll(call) ==
    /\ call.input.distribution_type = "Hash"
    /\ call.input.actors # <<>>
    /\ ~OverCapacity(call)
    /\ \A k \in DOMAIN call.input.actors :
          call.input.actors[k].colocated_upstream_actor_id \in DOMAIN actor_vnode_bitmaps

\* The bitmaps that the actors of the call inherit cover every vnode exactly
\* once.
InheritedExactCover(call) ==
    \A v \in Vnodes :
        Cardinality({k \in DOMAIN call.input.actors :
            LET b == actor_vnode_bitmaps[call.input.actors[k].colocated_upstream_actor_id]
            IN b.some /\ v \in b.bits}) = 1

\* C27: a call of schedule on a co-located hash fragment whose inherited
\* bitmaps leave a vnode uncovered or cover one more than once returns an
\* error; it neither returns Ok nor panics.
C27_InconsistentMappingError ==
    [][(/\ Len(fragments') = Len(fragments) + 1
        /\ InheritsAll(LastCall')
        /\ ~InheritedExactCover(LastCall')) =>
            LastCall'.result \notin {"ok", "panic"}]_vars

\* ================================================================
\* The Debezium JSON parser
\* (src/src/connector/src/parser/debezium/simd_json_parser.rs):
\* DebeziumJsonParser::parse_inner and ensure_not_null.  parse_inner has no
\* await that yields, one call is one step.  The op constants (operators.rs),
\* simd_json_parse_value and SourceStreamChunkRowWriter are outside the
\* source files: a value either parses to a datum or fails, a missing field
\* parses to NULL, and the writer does its write when the closure succeeded
\* for every column and none when it failed.
\* ================================================================

\* The names a column of the table and a field of a row document can have.
ColumnNames == {"id", "ID"}
FieldNames == {"id", "ID"}

\* The scalar values of a field; "x" is not a value of the column's type.
JsonScalars == {"1", "x"}

\* Option::None, the JSON null, and a JSON object with the given fields.
Absent == [kind |-> "absent", fields |-> <<>>]
JsonNull == [kind |-> "null", fields |-> <<>>]
JsonObject(fields) == [kind |-> "object", fields |-> fields]

\* What payload.get("before") and payload.get("after") can find.
OptDocuments ==
    {Absent, JsonNull}
       \cup {JsonObject(f) : f \in UNION {[S -> JsonScalars] : S \in SUBSET FieldNames}}

\* operators.rs
DEBEZIUM_READ_OP == "r"
DEBEZIUM_CREATE_OP == "c"
DEBEZIUM_UPDATE_OP == "u"
DEBEZIUM_DELETE_OP == "d"

\* What payload.get("op") can find: nothing, a number, or a string.
NoOp == [kind |-> "absent", str |-> ""]
OpNumber == [kind |-> "number", str |-> ""]
OpString(s) == [kind |-> "string", str |-> s]
OpValues ==
    {NoOp, OpNumber}
       \cup {OpString(s) : s \in {DEBEZIUM_READ_OP, DEBEZIUM_CREATE_OP,
                                  DEBEZIUM_UPDATE_OP, DEBEZIUM_DELETE_OP, "x"}}

\* What event.get("payload") can find.
NoPayload == [kind |-> "absent", op |-> NoOp, before |-> Absent, after |-> Absent]
NullPayload == [kind |-> "null", op |-> NoOp, before |-> Absent, after |-> Absent]
Payload(op, before, after) ==
    [kind |-> "object", op |-> op, before |-> before, after |-> after]

\* The bytes given to parse_inner: not JSON, or a document.
InvalidJson == [valid |-> FALSE, payload |-> NoPayload]
Events ==
    {InvalidJson}
       \cup {[valid |-> TRUE, payload |-> p] :
               p \in {NoPayload, NullPayload}
                       \cup {Payload(o, b, a) : o \in OpValues, b \in OptDocuments,
                                                a \in OptDocuments}}

\* Result<WriteGuard>
Ok == [kind |-> "Ok", msg |-> ""]
ProtocolError(msg) == [kind |-> "ProtocolError", msg |-> msg]
ValueError == [kind |-> "Err", msg |-> "simd_json_parse_value"]

\* What a call of parse_inner does: its result and its writes on the writer.
Parsed(r, writes) == [result |-> r, writes |-> writes]

\* ensure_not_null, were a null let through.
ensure_not_null_AcceptsNull(value) == value

\* ensure_not_null, lines 33-39.
ensure_not_null(value) == IF value.kind = "null" THEN Absent ELSE value

\* get(..).and_then(ensure_not_null), lines 63-65, 78, 84-86, 107-109, 125-127.
GetNotNull(found) == IF found.kind = "absent" THEN Absent ELSE ensure_not_null(found)

\* payload.get(OP).and_then(|v| v.as_str()), line 70.
GetOp(payload) ==
    IF payload.kind = "object" /\ payload.op.kind = "string" THEN payload.op ELSE NoOp

\* to_ascii_lowercase, were the column name used as it is.
to_ascii_lowercase_AsIs(name) == name

\* column.name.to_ascii_lowercase(), lines 96, 100, 119, 137.
to_ascii_lowercase(name) == IF name = "ID" THEN "id" ELSE name

\* doc.get(name), lines 96, 100, 119, 137: the field or nothing.
GetField(doc, name) ==
    IF doc.kind = "object" /\ name \in DOMAIN doc.fields THEN doc.fields[name] ELSE "absent"

\* simd_json_parse_value on what get found.
simd_json_parse_value(found) ==
    IF found = "absent" THEN [ok |-> TRUE, datum |-> "NULL"]
    ELSE IF found = "x" THEN [ok |-> FALSE, datum |-> "NULL"]
    ELSE [ok |-> TRUE, datum |-> found]

\* The closures of lines 93-104, 116-122, 134-140 on every column.
ColumnValues(doc) ==
    [k \in DOMAIN rw_columns |->
        simd_json_parse_value(GetField(doc, to_ascii_lowercase(rw_columns[k])))]

AllParsed(values) == \A k \in DOMAIN values : values[k].ok

RowOf(values) == [k \in DOMAIN values |-> values[k].datum]

\* writer.update, lines 93-104.
WriterUpdate(before, after) ==
    IF AllParsed(ColumnValues(before)) /\ AllParsed(ColumnValues(after))
    THEN Parsed(Ok, <<[op |-> "update", before |-> RowOf(ColumnValues(before)),
                       after |-> RowOf(ColumnValues(after))]>>)
    ELSE Parsed(ValueError, <<>>)

\* writer.insert, lines 116-122.
WriterInsert(after) ==
    IF AllParsed(ColumnValues(after))
    THEN Parsed(Ok, <<[op |-> "insert", before |-> <<>>,
                       after |-> RowOf(ColumnValues(after))]>>)
    ELSE Parsed(ValueError, <<>>)

\* writer.delete, lines 134-140.
WriterDelete(before) ==
    IF AllParsed(ColumnValues(before))
    THEN Parsed(Ok, <<[op |-> "delete", before |-> RowOf(ColumnValues(before)),
                       after |-> <<>>]>>)
    ELSE Parsed(ValueError, <<>>)

\* DebeziumJsonParser::parse_inner, lines 54-147.
parse_inner(ev) ==
    IF ~ev.valid
    THEN Parsed(ProtocolError("invalid json"), <<>>)
    ELSE LET payload == GetNotNull(ev.payload)
             op == GetOp(payload)
             before == GetNotNull(payload.before)
             after == GetNotNull(payload.after)
         IN IF payload.kind = "absent"
            THEN Parsed(ProtocolError("no payload in debezium event"), <<>>)
            ELSE IF op.kind = "absent"
            THEN Parsed(ProtocolError("op field not found in debezium json"), <<>>)
            ELSE IF op.str = DEBEZIUM_UPDATE_OP
            THEN IF before.kind = "absent"
                 THEN Parsed(ProtocolError("before is missing for updating event"), <<>>)
                 ELSE IF after.kind = "absent"
                 THEN Parsed(ProtocolError("after is missing for updating event"), <<>>)
                 ELSE WriterUpdate(before, after)
            ELSE IF op.str \in {DEBEZIUM_CREATE_OP, DEBEZIUM_READ_OP}
            THEN IF after.kind = "absent"
                 THEN Parsed(ProtocolError("after is missing for creating event"), <<>>)
                 ELSE WriterInsert(after)
            ELSE IF op.str = DEBEZIUM_DELETE_OP
            THEN IF before.kind = "absent"
                 THEN Parsed(ProtocolError("before is missing for delete event"), <<>>)
                 ELSE WriterDelete(before)
            ELSE Parsed(ProtocolError("unknown debezium op"), <<>>)

\* DebeziumJsonParser::new, lines 49-51, on the columns of a table.
ParserInit ==
    /\ rw_columns \in {<<c>> : c \in ColumnNames}
    /\ writer = <<>>
    /\ event = InvalidJson
    /\ parse_result = [kind |-> "none", msg |-> ""]
    /\ parses = 0

\* One call of parse_inner with the writer.
ParseInner ==
    /\ parses < MaxParses
    /\ \E ev \in Events :
          /\ event' = ev
          /\ parse_result' = parse_inner(ev).result
          /\ writer' = writer \o parse_inner(ev).writes
    /\ parses' = parses + 1
    /\ UNCHANGED <<rw_columns, recoveryVars, shuffleVars, scheduleVars, errorVars>>

ParserSpecInit ==
    RecoveryIdle /\ ShuffleIdle /\ ScheduleIdle /\ ParserInit /\ ErrorIdle

ParserNext == ParseInner

ParserSpec == ParserSpecInit /\ [][ParserNext]_vars

\* ------------------------------------------------------ claims on the parser

\* The field of a row document in which the value of a column is looked for.
FieldOfColumn == ("id" :> "id") @@ ("ID" :> "id")

\* The datum of column c in row document doc.
DatumOf(doc, c) ==
    IF FieldOfColumn[c] \in DOMAIN doc.fields THEN doc.fields[FieldOfColumn[c]] ELSE "NULL"

\* The row of the table's columns that row document doc holds.
ExpectedRow(doc) == [k \in DOMAIN rw_columns |-> DatumOf(doc, rw_columns[k])]

\* The op of the payload of ev is the string s.
HasOp(ev, s) == ev.payload.op = OpString(s)

\* The documents of payload that op requires are JSON objects.
RequiredPresent(ev) ==
    /\ (HasOp(ev, "u") \/ HasOp(ev, "d")) => ev.payload.before.kind = "object"
    /\ (HasOp(ev, "u") \/ HasOp(ev, "c") \/ HasOp(ev, "r")) => ev.payload.after.kind = "object"

\* ev is a well-formed Debezium event: a payload with an op of c, r, u, d,
\* the documents that op requires, and in them values of the columns' types.
WellFormed(ev) ==
    /\ ev.valid
    /\ ev.payload.kind = "object"
    /\ \E s \in {"c", "r", "u", "d"} : HasOp(ev, s)
    /\ RequiredPresent(ev)
    /\ \A k \in DOMAIN rw_columns :
          /\ ~HasOp(ev, "d") => DatumOf(ev.payload.after, rw_columns[k]) # "x"
          /\ ~(HasOp(ev, "c") \/ HasOp(ev, "r")) =>
                DatumOf(ev.payload.before, rw_columns[k]) # "x"

\* The one write that a well-formed event asks for.
ExpectedWrite(ev) ==
    IF HasOp(ev, "u")
    THEN [op |-> "update", before |-> ExpectedRow(ev.payload.before),
          after |-> ExpectedRow(ev.payload.after)]
    ELSE IF HasOp(ev, "d")
    THEN [op |-> "delete", before |-> ExpectedRow(ev.payload.before), after |-> <<>>]
    ELSE [op |-> "insert", before |-> <<>>, after |-> ExpectedRow(ev.payload.after)]

\* C28: a call of parse_inner on a well-formed event returns Ok and does
\* exactly one write: an insert of the row of after for op c and r, an update
\* of the rows of before and after for u, a delete of the row of before for
\* d, each column read from the field with the column's lowercased name.
C28_OneWritePerEvent ==
    [][(parses' = parses + 1 /\ WellFormed(event')) =>
          /\ parse_result' = Ok
          /\ writer' = Append(writer, ExpectedWrite(event'))]_vars

\* C28 witness: the second call, on a table with column ID, got an update
\* whose before has the field id and whose after has only the field ID, and
\* added the update of row 1 to the row NULL to the first call's write.
C28_Witness ==
    /\ parses = 2
    /\ rw_columns = <<"ID">>
    /\ WellFormed(event)
    /\ HasOp(event, "u")
    /\ DOMAIN event.payload.after.fields = {"ID"}
    /\ Len(writer) = 2
    /\ writer[2] = [op |-> "update", before |-> <<"1">>, after |-> <<"NULL">>]

\* The events for which parse_inner has to fail: no payload or a null one, no
\* op or one that is not c, r, u, d, or a required document missing or null.
Malformed(ev) ==
    /\ ev.valid
    /\ \/ ev.payload.kind # "object"
       \/ \A s \in {"c", "r", "u", "d"} : ~HasOp(ev, s)
       \/ ~RequiredPresent(ev)

\* C29: a call of parse_inner on an event without payload or with a null
\* payload, without op or with an op other than c, r, u, d, or without a
\* non-null before or after that its op requires, returns ProtocolError and
\* does no write.
C29_ProtocolError ==
    [][(parses' = parses + 1 /\ Malformed(event')) =>
          /\ parse_result'.kind = "ProtocolError"
          /\ writer' = writer]_vars

\* C29 witness: after a call that wrote a row, an update event with a null
\* before and an after object was refused and the writer still has one write.
C29_Witness ==
    /\ parses = 2
    /\ Len(writer) = 1
    /\ HasOp(event, "u")
    /\ event.payload.before = JsonNull
    /\ event.payload.after.kind = "object"
    /\ parse_result = ProtocolError("before is missing for updating event")

\* ================================================================
\* The error type of the server (src/rust/server/src/error.rs): ErrorCode,
\* its Display, ErrorCode::to_grpc_error_code and RwError::to_grpc_error.
\* An error is its kind and the message it carries ("" if it carries none).
\* ================================================================

\* enum ErrorCode, lines 15-38: the kinds without and with a message.
PlainErrorKinds ==
    {"OK", "MemoryError", "ProtobufError", "IoError", "ParseError",
     "NumericValueOutOfRange", "TaskNotFound"}
MessageErrorKinds == {"InternalError", "NotImplementedError", "GrpcError", "ProtocolError"}
ErrorKinds == PlainErrorKinds \cup MessageErrorKinds

\* The messages an error can carry.
ErrorMessages == {"", "m"}

ErrorCode(kind, msg) == [kind |-> kind, msg |-> msg]

ErrorCodes ==
    {ErrorCode(k, "") : k \in PlainErrorKinds}
       \cup {ErrorCode(k, m) : k \in MessageErrorKinds, m \in ErrorMessages}

\* RpcStatusCode, the codes that to_grpc_error_code uses.
RpcStatusCodes == {"OK", "UNIMPLEMENTED", "NOT_FOUND", "INTERNAL"}

\* to_grpc_error_code, were every error an internal one.
to_grpc_error_code_AllInternal(ec) == "INTERNAL"

\* ErrorCode::to_grpc_error_code, lines 102-109.
to_grpc_error_code(ec) ==
    IF ec.kind = "OK" THEN "OK"
    ELSE IF ec.kind = "NotImplementedError" THEN "UNIMPLEMENTED"
    ELSE IF ec.kind = "TaskNotFound" THEN "NOT_FOUND"
    ELSE "INTERNAL"

\* Display of ErrorCode, the #[error(..)] attributes of lines 16-36: the
\* format and the message put into it.
Display(ec) ==
    [format |->
        CASE ec.kind = "OK" -> "ok"
          [] ec.kind = "MemoryError" -> "Failed to alloc memory for layout: {layout:?}"
          [] ec.kind = "InternalError" -> "internal error: {0}"
          [] ec.kind = "NotImplementedError" -> "Feature is not yet implemented: {0}"
          [] ec.kind = "GrpcError" -> "Grpc failure: {0}: {1}"
          [] ec.kind = "ParseError" -> "Parse string error: {0}"
          [] ec.kind = "NumericValueOutOfRange" -> "Out of range"
          [] ec.kind = "ProtocolError" -> "protocol error: {0}"
          [] ec.kind = "TaskNotFound" -> "Task not found"
          [] OTHER -> "transparent",
     arg |-> ec.msg]

\* RwError::to_grpc_error, lines 48-50.
to_grpc_error(ec) == [code |-> to_grpc_error_code(ec), message |-> Display(ec)]

\* RwError::from(code).to_grpc_error() on any error.
ToGrpcError ==
    /\ Len(rpc_statuses) < MaxErrors
    /\ \E ec \in ErrorCodes :
          rpc_statuses' = Append(rpc_statuses, [error |-> ec, status |-> to_grpc_error(ec)])
    /\ UNCHANGED <<recoveryVars, shuffleVars, scheduleVars, parserVars>>

ErrorSpecInit ==
    RecoveryIdle /\ ShuffleIdle /\ ScheduleIdle /\ ParserIdle /\ rpc_statuses = <<>>

ErrorNext == ToGrpcError

ErrorSpec == ErrorSpecInit /\ [][ErrorNext]_vars

\* ------------------------------------------------------ claims on the errors

\* C30: the status code of every error is fixed by its kind: NOT_FOUND for
\* TaskNotFound, UNIMPLEMENTED for NotImplementedError, OK for OK and INTERNAL
\* for each of the eight other kinds, whatever message the error carries.
C30_GrpcCodeByKind ==
    /\ \A ec \in ErrorCodes : to_grpc_error_code(ec) \in RpcStatusCodes
    /\ \A i \in DOMAIN rpc_statuses :
          LET kind == rpc_statuses[i].error.kind
              code == rpc_statuses[i].status.code
          IN /\ kind = "TaskNotFound" => code = "NOT_FOUND"
             /\ kind = "NotImplementedError" => code = "UNIMPLEMENTED"
             /\ kind = "OK" => code = "OK"
             /\ kind \in {"InternalError", "MemoryError", "ProtobufError", "IoError",
                          "GrpcError", "ParseError", "NumericValueOutOfRange",
                          "ProtocolError"} => code = "INTERNAL"
             /\ kind \in {"TaskNotFound", "NotImplementedError", "OK", "InternalError",
                          "MemoryError", "ProtobufError", "IoError", "GrpcError",
                          "ParseError", "NumericValueOutOfRange", "ProtocolError"}

\* C30 witness: a ProtocolError with a message got INTERNAL and a
\* TaskNotFound got NOT_FOUND.
C30_Witness ==
    /\ Len(rpc_statuses) = 2
    /\ rpc_statuses[1].error = ErrorCode("ProtocolError", "m")
    /\ rpc_statuses[1].status.code = "INTERNAL"
    /\ rpc_statuses[2].error = ErrorCode("TaskNotFound", "")
    /\ rpc_statuses[2].status.code = "NOT_FOUND"

\* ------------------------------------------- claims on the steps of an attempt

\* The positions of an attempt after reset_compute_nodes has returned Ok.
AfterReset ==
    pc \in {"update", "updating", "building", "list", "inject", "collect",
            "post_collect", "done"}

\* No update or build request has been sent in the attempt.
NothingSent == broadcasted = EmptyMap /\ updated = EmptyMap /\ built = EmptyMap

\* C31: the reset step sends force_stop_actors to exactly the workers of the
\* snapshot's node_map, each request with an id that no other request of this
\* or of the previous reset has; every outstanding request can be the next to
\* complete; the step is left for update only when every worker has answered,
\* and a failed request ends the attempt before any update or build request.
C31_ResetEveryLiveWorker ==
    /\ [][(pc = "reset" /\ pc' # "reset") =>
             /\ pending' = info.node_map
             /\ DOMAIN force_stop_requests' = info.node_map
             /\ \A v, w \in DOMAIN force_stop_requests' :
                   v # w => force_stop_requests'[v] # force_stop_requests'[w]
             /\ \A v \in DOMAIN force_stop_requests' : \A w \in DOMAIN force_stop_requests :
                   force_stop_requests'[v] # force_stop_requests[w]]_vars
    /\ [](pc = "resetting" => \A w \in pending : ENABLED ForceStopOk(w))
    /\ [](stopped \subseteq info.node_map)
    /\ [](AfterReset => stopped = info.node_map)
    /\ [](~NothingSent => stopped = info.node_map)
    /\ [][(pc = "resetting" /\ pc' \notin {"resetting", "update"}) =>
             pc' = "backoff" /\ NothingSent']_vars

\* C31 witness: in a retried attempt a live worker that hosts no actor has
\* got a request, and a worker has answered before one of smaller id.
C31_Witness ==
    /\ pc = "resetting"
    /\ retry_strategy >= 1
    /\ \E w \in DOMAIN force_stop_requests : w \notin DOMAIN info.actor_map
    /\ \E w \in stopped : \E v \in pending : v < w
\* The actors of the snapshot's actor_map.
SnapshotActors == UNION {info.actor_map[w] : w \in DOMAIN info.actor_map}

\* The actors that the fragment manager records for worker w.
RecordedActors(w) == {a \in StoredActors : actor_location[a] = w}

ObservedNewWorkers == plan_node_map \cup NewNodes

\* C33: while the plan has fewer targets than there are expired workers the
\* attempt stays in get_migrate_map_plan: it does not fail, sends no
\* force_stop, broadcast, update or build request and injects no barrier.  A
\* poll adds every eligible new worker it lists, and it returns the plan
\* exactly when the workers seen over all polls are as many as the expired
\* workers.  If the recovery task keeps being polled, a wait during which
\* enough new workers are running ends.
C33_WaitForNewWorkers ==
    /\ [](pc = "plan" =>
             /\ cur < Len(expired_workers)
             /\ cur = Cardinality(plan_node_map)
             /\ stopped = {} /\ pending = {}
             /\ broadcasted = EmptyMap /\ updated = EmptyMap /\ built = EmptyMap
             /\ command_ctx = NoCommandCtx /\ barrier = NoBarrier)
    /\ [][pc = "plan" =>
            /\ pc' \in {"plan", "persist"}
            /\ UNCHANGED <<rpcVars, command_ctx, barrier, barrier_complete,
                           actor_location, retry_strategy, steps>>]_vars
    /\ [][(pc = "plan" /\ <<plan_node_map, cur, pc>>' # <<plan_node_map, cur, pc>>) =>
            /\ plan_node_map \subseteq plan_node_map'
            /\ plan_node_map' \subseteq ObservedNewWorkers
            /\ cur' = Cardinality(plan_node_map')
            /\ IF Cardinality(ObservedNewWorkers) >= Len(expired_workers)
               THEN pc' = "persist" /\ cur' = Len(expired_workers)
               ELSE pc' = "plan" /\ plan_node_map' = ObservedNewWorkers]_vars
    /\ (pc = "plan" /\ Cardinality(ObservedNewWorkers) >= Len(expired_workers))
          ~> (pc # "plan" \/ Cardinality(ObservedNewWorkers) < Len(expired_workers))

\* C33 witness: the attempt waits with a partial plan: a poll found a target
\* for one of two expired workers and no other new worker is running.
C33_Witness ==
    /\ pc = "plan"
    /\ Len(expired_workers) = 2
    /\ cur = 1
    /\ NewNodes = {}

\* C34: when fragment_manager.migrate_actors persists the plan, every target
\* worker of the plan is a Running compute worker: a target that left the
\* cluster after the poll that chose it is not in the persisted plan.
C34_TargetsStillRunning ==
    [][actor_location' # actor_location =>
          /\ Range(migrate_map) \subseteq running
          /\ plan_node_map \subseteq running]_vars

\* C35 as stated: every attempt of one recovery call that injects a barrier
\* injects it with the pair of epochs of the attempt before it, and recovery
\* returns the curr_epoch of that pair.
C35_SamePairEveryAttempt ==
    /\ [][(pc = "inject" /\ pc' = "collect" /\ last_injected # NoBarrier) =>
            last_injected' = last_injected]_vars
    /\ [](pc = "done" => result = last_injected.curr_epoch)

\* C35: every attempt computes the epochs of its barrier anew from
\* recovery's input epoch, which never changes: the barrier's prev_epoch is a
\* next() of the input epoch and its curr_epoch a next() of that prev_epoch,
\* both taken while the attempt runs, so that two attempts may inject
\* different pairs.  Recovery returns the curr_epoch of the barrier of the
\* attempt that succeeded, at least two epochs after its input whatever the
\* number of failed attempts.
C35_FreshPairEveryAttempt ==
    /\ [][prev_epoch' = prev_epoch]_vars
    /\ [][(pc = "inject" /\ pc' = "collect") =>
            /\ last_injected' = BarrierEpochs(barrier')
            /\ last_injected'.prev_epoch \in EpochNext(prev_epoch)
            /\ last_injected'.curr_epoch \in EpochNext(last_injected'.prev_epoch)]_vars
    /\ [][last_injected' # last_injected => (pc = "inject" /\ pc' = "collect")]_vars
    /\ [](pc = "done" =>
             /\ BarrierEpochs(barrier) = last_injected
             /\ result = last_injected.curr_epoch
             /\ result >= prev_epoch + 2)

\* C35 witness: a retry is about to inject a barrier whose epochs differ from
\* those of the barrier an earlier attempt injected.
C35_Witness ==
    /\ pc = "inject"
    /\ last_injected # NoBarrier
    /\ BarrierEpochs(command_ctx) # last_injected

\* The workers that got a broadcast, update_actors or build_actors request
\* in the current attempt.
Requested == DOMAIN broadcasted \cup DOMAIN updated \cup DOMAIN built

\* C36: broadcast, update_actors and build_actors requests go only to
\* workers of the snapshot's node_map.  If the snapshot the attempt uses
\* after the migrate step has a worker in actor_map that is not in node_map,
\* update_actors fails before it sends any request and the attempt is
\* retried; so whenever recovery has returned, every worker of the last
\* snapshot's actor_map is in that snapshot's node_map and got its requests.
C36_OnlyLiveWorkersUpdated ==
    /\ [](Requested \subseteq info.node_map)
    /\ [](pc \in {"updating", "building", "list", "inject", "collect",
                  "post_collect", "done"} => ~WorkerEvicted(info))
    /\ [][(pc = "update" /\ pc' # pc /\ WorkerEvicted(info)) =>
            /\ pc' = "backoff"
            /\ Requested' = {}
            /\ retry_strategy' = retry_strategy]_vars
    /\ [][(pc = "backoff" /\ pc' # pc) =>
            (pc' = "resolve" /\ retry_strategy' = retry_strategy + 1)]_vars
    /\ [](pc = "done" =>
             /\ DOMAIN info.actor_map \subseteq info.node_map
             /\ DOMAIN built = DOMAIN info.actor_map
             /\ DOMAIN updated = DOMAIN info.actor_map)

\* C36 witness: after a persisted migration the new snapshot had a worker
\* that owns actors and is not in node_map, and update_actors ended the
\* attempt.
C36_Witness ==
    /\ pc = "backoff"
    /\ Migrated
    /\ steps[Len(steps)] = "update"
    /\ WorkerEvicted(info)
    /\ Requested = {}

\* The ids of the actors of the fragment given to the call of schedule.
OwnActors(call) == {call.input.actors[k].actor_id : k \in DOMAIN call.input.actors}

\* Map g has every entry that map f has for the keys outside own, and no
\* other entry for a key outside own.
SameOutside(f, g, own) ==
    /\ DOMAIN f \ own = DOMAIN g \ own
    /\ \A a \in DOMAIN f \ own : g[a] = f[a]

\* C37: a call of schedule, whether it returns Ok or an error or panics,
\* leaves the entries of actor_locations and of actor_vnode_bitmaps of every
\* actor that is not an actor of the given fragment as they were, and removes
\* no entry from either map.
C37_EarlierEntriesKept ==
    [][Len(fragments') = Len(fragments) + 1 =>
          /\ SameOutside(actor_locations, actor_locations', OwnActors(LastCall'))
          /\ SameOutside(actor_vnode_bitmaps, actor_vnode_bitmaps', OwnActors(LastCall'))
          /\ DOMAIN actor_locations \subseteq DOMAIN actor_locations'
          /\ DOMAIN actor_vnode_bitmaps \subseteq DOMAIN actor_vnode_bitmaps']_vars

\* C37 witness: a call that returned an error after it had placed the first
\* actor of its fragment, made after a successful call that placed two
\* actors with their bitmaps.
C37_Witness ==
    /\ Len(fragments) = 2
    /\ fragments[1].result = "ok"
    /\ fragments[2].result \in ColocateErrors
    /\ {1, 2} \subseteq DOMAIN actor_vnode_bitmaps
    /\ 3 \in DOMAIN actor_locations

\* The actors of the fragments that schedule placed successfully, as the
\* calls left them.
PlacedActors ==
    UNION {{fragments[i].output.actors[k] : k \in DOMAIN fragments[i].output.actors} :
              i \in OkCalls}

\* A call of schedule on a hash fragment all of whose actors declare a
\* co-located upstream that is recorded in actor_locations.
ColocatedWithPlaced(call, locations) ==
    /\ call.input.distribution_type = "Hash"
    /\ call.input.actors # <<>>
    /\ \A k \in DOMAIN call.input.actors :
          call.input.actors[k].colocated_upstream_actor_id \in DOMAIN locations

\* C38: while every call of schedule so far returned Ok, every actor of every
\* scheduled fragment has an entry in actor_locations and an entry in
\* actor_vnode_bitmaps that equals its own vnode_bitmap; and a call of
\* schedule on a hash fragment whose actors are co-located with placed
\* upstream actors, of singleton or hash fragments, returns Ok or an error
\* and does not panic.
C38_EveryPlacedActorHasBitmap ==
    /\ [](OkCalls = DOMAIN fragments =>
             \A a \in PlacedActors :
                /\ a.actor_id \in DOMAIN actor_locations
                /\ a.actor_id \in DOMAIN actor_vnode_bitmaps
                /\ actor_vnode_bitmaps[a.actor_id] = a.vnode_bitmap)
    /\ [][(/\ Len(fragments') = Len(fragments) + 1
           /\ OkCalls = DOMAIN fragments
           /\ Len(LastCall'.input.actors) <= Len(all_parallel_units)
           /\ ColocatedWithPlaced(LastCall', actor_locations)) =>
            LastCall'.result # "panic"]_vars

\* A call of send is running: it has started and not returned.
Sending == sender_pc \in {"send_chunk", "send_done"}

\* C39: if the sender's task keeps being polled and every receiver that is
\* alive keeps taking the items of its queue, every running send of a chunk
\* and every running send of EndOfStream returns, although the sender serves
\* the sinks in order and waits at a full queue; the send returns Ok unless a
\* receiver was dropped, and a send that waits at a full queue gets to put
\* its item or learns that the receiver is gone.
C39_SendCompletes ==
    /\ Sending ~> (sender_pc = "idle")
    /\ SendBlocked ~> ~SendBlocked
    /\ [](\A i \in DOMAIN calls :
             calls[i].result = "err" => receivers # 1..OutputCount(vmap))
    /\ [][(Sending /\ ~Sending') => (sender_pc' = "idle" /\ calls'[Len(calls')].result \in {"ok", "err"})]_vars

\* C39 witness: with every receiver alive the sender waits at the full queue
\* of the first sink while it has yet to serve the second.
C39_Witness ==
    /\ Sending
    /\ SendBlocked
    /\ sink_id = 0
    /\ OutputCount(vmap) = 2
    /\ receivers = {1, 2}

====
